---- MODULE Spec2Model ----
(***************************************************************************)
(* Round-trip testing of the wikitext <-> HTML engine:                     *)
(*   - findMatchingNodes / walkDOM : source-range to DOM-node alignment    *)
(*   - checkIfSignificant          : syntactic / semantic classification   *)
(* (tests/roundtrip-test.js).                                              *)
(***************************************************************************)
EXTENDS Integers, Sequences, FiniteSets, TLC

(***************************************************************************)
(* Bounds of the model.                                                    *)
(***************************************************************************)
\* longest text / comment node, in source characters
MaxLen == 2
\* widest opening (and closing) tag of an element, in source characters
MaxTag == 1

\* JavaScript null (an offset that is not known)
Null == -1

\* JavaScript truthiness of a number-or-null: null and 0 are falsy
Truthy(x) == x # Null /\ x # 0

(***************************************************************************)
(* Documents.  A document is a tree of nodes 1..n numbered in document     *)
(* order, node 1 being the root (the body element).  A shape gives the     *)
(* parent of every node and what stands at it:                             *)
(*   "E" an ordinary element, "T" an element whose typeof marks it as      *)
(*   encapsulated content, "A" an element that continues the encapsulated  *)
(*   content of its previous sibling (same about id), "L" a text or        *)
(*   comment node.                                                         *)
(***************************************************************************)
Shapes ==
  { [par |-> <<0, 1, 1>>,       slot |-> <<"E", "E", "E">>],
    [par |-> <<0, 1, 1, 1>>,    slot |-> <<"E", "E", "E", "L">>],
    [par |-> <<0, 1, 1, 1>>,    slot |-> <<"E", "L", "E", "L">>],
    [par |-> <<0, 1, 1, 1>>,    slot |-> <<"E", "L", "E", "E">>],
    [par |-> <<0, 1, 2, 1>>,    slot |-> <<"E", "E", "L", "E">>],
    [par |-> <<0, 1, 2, 2>>,    slot |-> <<"E", "E", "L", "E">>],
    [par |-> <<0, 1, 2, 2>>,    slot |-> <<"E", "E", "E", "L">>],
    [par |-> <<0, 1, 2, 3>>,    slot |-> <<"E", "E", "E", "L">>],
    [par |-> <<0, 1, 2, 1>>,    slot |-> <<"E", "T", "L", "L">>],
    [par |-> <<0, 1, 1, 1>>,    slot |-> <<"E", "T", "A", "E">>],
    [par |-> <<0, 1, 2, 2>>,    slot |-> <<"E", "T", "E", "L">>] }

NodesOf(sh) == 1..Len(sh.par)

\* element.childNodes, in document order
RECURSIVE KidsFrom(_, _, _)
KidsFrom(sh, n, i) ==
  IF i > Len(sh.par) THEN <<>>
  ELSE IF sh.par[i] = n THEN <<i>> \o KidsFrom(sh, n, i + 1)
  ELSE KidsFrom(sh, n, i + 1)

IsEltSlot(s) == s \in {"E", "T", "A"}

\* what data-parsoid.dsr of an element may hold: both offsets or no dsr at all
\* and, for the root, also a null start or a null end
InnerModes == {"full", "none"}
NullModes == {"nullStart", "nullEnd"}

\* What the parser may have left at a node of a given slot:
\*   kind  the DOM node type
\*   len   text: nodeValue.length; comment: its decoded source length
\*   w     element: width of its opening and of its closing tag in the source
\*   mode  element: what data-parsoid.dsr holds
NodeOptions(s, isRoot, modes) ==
  IF s = "L"
  THEN { [kind |-> "text", len |-> l, w |-> 0, mode |-> "none"] : l \in 1..MaxLen }
       \cup { [kind |-> "comment", len |-> MaxLen, w |-> 0, mode |-> "none"] }
  ELSE IF s \in {"T", "A"}
  THEN { [kind |-> "elt", len |-> 0, w |-> w, mode |-> "full"] : w \in 0..MaxTag }
  ELSE IF isRoot
  THEN { [kind |-> "elt", len |-> 0, w |-> 0, mode |-> m] :
            m \in modes \cup (IF modes = InnerModes THEN NullModes ELSE {}) }
  ELSE { [kind |-> "elt", len |-> 0, w |-> w, mode |-> m] : w \in 0..MaxTag, m \in modes }

\* source width of the subtree at n
RECURSIVE WidthOf(_, _, _), SumWidths(_, _, _, _)
WidthOf(sh, at, n) ==
  IF at[n].kind # "elt" THEN at[n].len
  ELSE 2 * at[n].w + SumWidths(sh, at, KidsFrom(sh, n, 1), 1)
SumWidths(sh, at, ks, i) ==
  IF i > Len(ks) THEN 0
  ELSE WidthOf(sh, at, ks[i]) + SumWidths(sh, at, ks, i + 1)

\* source offset at which the subtree at n starts
RECURSIVE StartOf(_, _, _), EarlierWidths(_, _, _, _)
StartOf(sh, at, n) ==
  IF sh.par[n] = 0 THEN 0
  ELSE StartOf(sh, at, sh.par[n]) + at[sh.par[n]].w
       + EarlierWidths(sh, at, n, sh.par[n] + 1)
EarlierWidths(sh, at, n, i) ==
  IF i >= n THEN 0
  ELSE (IF sh.par[i] = sh.par[n] THEN WidthOf(sh, at, i) ELSE 0)
       + EarlierWidths(sh, at, n, i + 1)

\* data-parsoid.dsr of a node: <<>> when the node carries none
DsrOf(sh, at, n) ==
  LET s == StartOf(sh, at, n)
      e == s + WidthOf(sh, at, n)
  IN  CASE at[n].mode = "full"      -> <<s, e>>
        [] at[n].mode = "nullStart" -> <<Null, e>>
        [] at[n].mode = "nullEnd"   -> <<s, Null>>
        [] OTHER                    -> <<>>

MkDoc(sh, at) ==
  [ n      |-> Len(sh.par),
    kids   |-> [k \in NodesOf(sh) |-> KidsFrom(sh, k, 1)],
    parent |-> [k \in NodesOf(sh) |-> sh.par[k]],
    kind   |-> [k \in NodesOf(sh) |-> at[k].kind],
    len    |-> [k \in NodesOf(sh) |-> at[k].len],
    dsr    |-> [k \in NodesOf(sh) |-> DsrOf(sh, at, k)],
    span   |-> [k \in NodesOf(sh) |->
                  <<StartOf(sh, at, k), StartOf(sh, at, k) + WidthOf(sh, at, k)>>],
    enc    |-> [k \in NodesOf(sh) |-> sh.slot[k] = "T"],
    cont   |-> [k \in NodesOf(sh) |-> sh.slot[k] = "A"],
    srcLen |-> WidthOf(sh, at, 1) ]

\* every way of filling the slots 1..k of a shape
RECURSIVE AttrsUpTo(_, _, _)
AttrsUpTo(sh, modes, k) ==
  IF k = 0 THEN { <<>> }
  ELSE { Append(at, o) : at \in AttrsUpTo(sh, modes, k - 1),
                         o \in NodeOptions(sh.slot[k], k = 1, modes) }

DocsOf(shapes, modes) ==
  UNION { { MkDoc(sh, at) : at \in AttrsUpTo(sh, modes, Len(sh.par)) } : sh \in shapes }

Docs == DocsOf(Shapes, InnerModes)

(***************************************************************************)
(* findMatchingNodes.  The three variables its closure shares between all  *)
(* walkDOM calls are threaded through as st.co (currentOffset), st.ww      *)
(* (wasWaiting) and st.wf (waitingForEndMatch).  st.visited lists the      *)
(* nodes in the order walkDOM or its child scan looked at them, and        *)
(* st.log has one entry per finished walkDOM call.                         *)
(***************************************************************************)
NullRes == [null |-> TRUE, done |-> FALSE, nodes |-> <<>>]
Res(done, nodes) == [null |-> FALSE, done |-> done, nodes |-> nodes]

IsElt(d, c) == d.kind[c] = "elt"
IsComment(d, c) == d.kind[c] = "comment"

\* DU.decodedCommentLength(n) for a comment, n.nodeValue.length for a text node
NodeLen(d, c) == d.len[c]

\* /\bmw:(?:Transclusion\b|Param\b|Extension\/[^\s]+)/.test(typeOf)
IsEncapsulated(d, c) == IsElt(d, c) /\ d.enc[c]

\* position of c among the children of its parent
RECURSIVE IndexIn(_, _, _)
IndexIn(ks, c, i) == IF ks[i] = c THEN i ELSE IndexIn(ks, c, i + 1)

\* DU.skipOverEncapsulatedContent(c): the index, among the children ks, of the
\* first sibling after position i that does not continue c's encapsulated content
RECURSIVE SkipOverEncapsulatedContent(_, _, _)
SkipOverEncapsulatedContent(d, ks, i) ==
  IF i + 1 <= Len(ks) /\ d.cont[ks[i + 1]]
  THEN SkipOverEncapsulatedContent(d, ks, i + 1)
  ELSE i + 1

\* lines 213-224: pop preceding nodes while they fit into diff; the nodes kept,
\* in document order
RECURSIVE ElesOnOffset(_, _, _)
ElesOnOffset(d, precedingNodes, diff) ==
  IF Len(precedingNodes) > 0 /\ diff > 0
  THEN LET n   == precedingNodes[Len(precedingNodes)]
           len == NodeLen(d, n)
       IN  IF len > diff THEN <<>>
           ELSE ElesOnOffset(d, SubSeq(precedingNodes, 1, Len(precedingNodes) - 1),
                             diff - len) \o <<n>>
  ELSE <<>>

AfterScanNoEmptyCheck(d, element, elements, st) ==
  IF Len(elements) < Len(d.kids[element]) THEN Res(~st.wf, elements)
  ELSE Res(~st.wf, <<element>>)

\* lines 290-298: what walkDOM returns once the child scan is over
AfterScan(d, element, elements, st) ==
  LET numElements == Len(elements)
      numChildren == Len(d.kids[element])
  IN  IF numElements = 0 THEN NullRes
      ELSE IF numElements < numChildren THEN Res(~st.wf, elements)
      ELSE Res(~st.wf, <<element>>)

\* one iteration of the while loop of lines 199-288, as st.its keeps it:
\* the element scanned and the child looked at, waitingForEndMatch on entry,
\* wasWaiting and waitingForEndMatch when the iteration ends, the running
\* elements before and after it, whether the child's match was not empty, and
\* how the iteration ends: "return" (line 246), "break" (line 278) or "next";
\* currentOffset on entry and at the end; and of precedingNodes: the buffer on
\* entry and at the end, whether lines 206-226 ran, the gap they began with
\* and the nodes they put before the child's match
Buffer(preceding, buffered, recon, gap, prefix) ==
  [preceding |-> preceding, buffered |-> buffered, recon |-> recon, gap |-> gap,
   prefix |-> prefix]

Iteration(element, c, st0, st, before, after, matched, stop, buf) ==
  [ parent |-> element, child |-> c, entry |-> st0.wf, ww |-> st.ww, wf |-> st.wf,
    before |-> before, after |-> after, matched |-> matched, stop |-> stop,
    co0 |-> st0.co, co |-> st.co,
    preceding |-> buf.preceding, buffered |-> buf.buffered, recon |-> buf.recon,
    gap |-> buf.gap, prefix |-> buf.prefix ]

\* line 277: if (wasWaiting && !waitingForEndMatch) break
NeverBreaks(st) == FALSE
Breaks(st) == st.ww /\ ~st.wf
StopOf(st) == IF Breaks(st) THEN "break" ELSE "next"

\* the state with one more iteration recorded
Recorded(st, it) == [st EXCEPT !.its = Append(@, it)]

\* what the child scan hands back: the result, the state, and the running
\* elements when it ended through lines 290-298 (how = "scan") or through
\* line 246 (how = "child")
Scanned(res, st, how, elements) ==
  [res |-> res, st |-> st, how |-> how, elements |-> elements]

\* what walkDOM hands back before any child is looked at
Direct(res, st, how) == [res |-> res, st |-> st, how |-> how, elements |-> <<>>]

RECURSIVE WalkDOM(_, _, _, _, _), WalkBody(_, _, _, _, _), ChildScan(_, _, _, _, _, _, _, _)
RECURSIVE AfterChild(_, _, _, _, _, _, _, _, _, _)

\* lines 199-288, from the child at position i of element on
ChildScan(d, tr, sourceLen, element, i, elements, precedingNodes, st0) ==
  LET ks == d.kids[element]
  IN
  IF i > Len(ks) THEN Scanned(AfterScan(d, element, elements, st0), st0, "scan", elements)
  ELSE
  LET c       == ks[i]
      attribs == d.dsr[element]
      st1     == [st0 EXCEPT !.ww = st0.wf]
      next    == IF IsEncapsulated(d, c)
                 THEN SkipOverEncapsulatedContent(d, ks, i)
                 ELSE i + 1
  IN
  IF IsElt(d, c)
  THEN AfterChild(d, tr, sourceLen, element, next, elements, precedingNodes, st0, c,
                  WalkDOM(d, tr, sourceLen, c, st1))
  ELSE
    LET adv == Truthy(st1.co) /\ st1.co < tr.end
        co2 == IF adv THEN st1.co + NodeLen(d, c) ELSE st1.co
        wf2 == IF adv /\ co2 >= tr.end THEN FALSE ELSE st1.wf
        st2 == [st1 EXCEPT !.co = co2, !.wf = wf2, !.visited = Append(@, c)]
        elements2 == IF st2.ww \/ st2.wf THEN Append(elements, c) ELSE elements
        preceding2 == IF ~(st2.ww \/ st2.wf) /\ ~Truthy(co2)
                      THEN Append(precedingNodes, c) ELSE precedingNodes
        st5 == Recorded(st2, Iteration(element, c, st0, st2, elements, elements2,
                                       FALSE, StopOf(st2),
                                       Buffer(precedingNodes, preceding2, FALSE, 0, <<>>)))
    IN  IF Breaks(st2)
        THEN Scanned(AfterScan(d, element, elements2, st5), st5, "scan", elements2)
        ELSE ChildScan(d, tr, sourceLen, element, next, elements2, preceding2, st5)

\* lines 204-255: the rest of an iteration whose child c is an element, r being
\* what walkDOM(c) handed back and next the position of the child to go on with
AfterChild(d, tr, sourceLen, element, next, elements, precedingNodes, st0, c, r) ==
    LET attribs == d.dsr[element]
        res   == r.res
        st2   == r.st
        recon == ~Truthy(st2.co) /\ attribs # <<>> /\ attribs[1] # Null
        st3   == IF recon THEN [st2 EXCEPT !.co = attribs[1]] ELSE st2
        elesOnOffset ==
                 IF recon
                 THEN ElesOnOffset(d, precedingNodes, attribs[1] - tr.start)
                 ELSE <<>>
        matchedChildren == elesOnOffset \o res.nodes
        buf   == Buffer(precedingNodes, <<>>, recon,
                        IF recon THEN attribs[1] - tr.start ELSE 0, elesOnOffset)
        childAttribs == d.dsr[matchedChildren[1]]
        single == /\ Len(matchedChildren) = 1
                  /\ IsElt(d, matchedChildren[1])
                  /\ childAttribs # <<>>
                  /\ Truthy(childAttribs[2])
        done  == IF single /\ childAttribs[2] >= tr.end THEN TRUE ELSE res.done
        st4   == IF single /\ childAttribs[2] < tr.end
                 THEN [st3 EXCEPT !.co = childAttribs[2]] ELSE st3
    IN
    IF ~res.null
    THEN IF done
         THEN Scanned(Res(TRUE, matchedChildren),
                      Recorded(st4, Iteration(element, c, st0, st4, elements, elements,
                                              TRUE, "return", buf)),
                      "child", elements)
         ELSE LET st5 == Recorded(st4, Iteration(element, c, st0, st4, elements,
                                                 matchedChildren, TRUE, StopOf(st4), buf))
              IN  IF Breaks(st4)
                  THEN Scanned(AfterScan(d, element, matchedChildren, st5), st5,
                               "scan", matchedChildren)
                  ELSE ChildScan(d, tr, sourceLen, element, next, matchedChildren, <<>>, st5)
    ELSE LET elements2 == IF st2.ww \/ st2.wf THEN Append(elements, c) ELSE elements
             st5 == Recorded(st2, Iteration(element, c, st0, st2, elements, elements2,
                                            FALSE, StopOf(st2),
                                            Buffer(precedingNodes, <<>>, FALSE, 0, <<>>)))
         IN  IF Breaks(st2)
             THEN Scanned(AfterScan(d, element, elements2, st5), st5, "scan", elements2)
             ELSE ChildScan(d, tr, sourceLen, element, next, elements2, <<>>, st5)

\* line 169 and line 170: the offsets walkDOM works with; a null or 0 entry of
\* dsr is replaced by 0 (start) or by sourceLen - 1 (end)
StartFrom(attribs) == IF Truthy(attribs[1]) THEN attribs[1] ELSE 0
EndFrom(attribs, sourceLen) == IF Truthy(attribs[2]) THEN attribs[2] ELSE sourceLen - 1

\* line 172: the target lies wholly before or wholly after the node
Disjoint(tr, start, end) == (tr.end - 1) < start \/ tr.start > (end - 1)

ExactMatchEndOffByOne(attribs, tr, start, end) ==
  attribs[1] # Null /\ tr.start = start /\ end = tr.end - 1

\* lines 183-184: the node's span is the target
ExactMatch(attribs, tr, start, end) ==
  attribs[1] # Null /\ tr.start = start /\ end = tr.end

\* line 177: the node ends where the target ends or after it
AlwaysReaches(tr, end) == TRUE
ReachesEnd(tr, end) == end >= tr.end

\* line 187: waitingForEndMatch = true
StayIdle(st) == st
StartWaiting(st) == [st EXCEPT !.wf = TRUE]

\* lines 164-298 for one element
WalkBody(d, tr, sourceLen, element, st) ==
  LET attribs == d.dsr[element]
      start   == StartFrom(attribs)
      end     == EndFrom(attribs, sourceLen)
      scan(s) == ChildScan(d, tr, sourceLen, element, 1, <<>>, <<>>, s)
  IN
  IF attribs = <<>> THEN scan(st)
  ELSE IF Disjoint(tr, start, end)
  THEN Direct(NullRes, st, "disjoint")
  ELSE IF st.wf
  THEN Direct(Res(TRUE, <<element>>),
              IF ReachesEnd(tr, end) THEN [st EXCEPT !.wf = FALSE] ELSE st,
              "waiting")
  ELSE IF ExactMatch(attribs, tr, start, end)
  THEN Direct(Res(TRUE, <<element>>), st, "exact")
  ELSE IF tr.start = start
  THEN IF end < tr.end
       THEN Direct(Res(FALSE, <<element>>), StartWaiting(st), "start")
       ELSE scan([st EXCEPT !.wf = TRUE])
  ELSE IF start > tr.start /\ end < tr.end
  THEN Direct(Res(FALSE, <<element>>), st, "inside")
  ELSE scan(st)

\* the iterations of the child scan of one element
OfParent(its, element) ==
  LET Here(it) == it.parent = element
  IN  SelectSeq(its, Here)

\* the entry of st.log for the walkDOM call of element that began in state
\* st0 and hands back r
LogEntry(element, st0, r) ==
  [ node |-> element,
    res  |-> r.res,
    pre  |-> [co |-> st0.co, ww |-> st0.ww, wf |-> st0.wf],
    post |-> [co |-> r.st.co, ww |-> r.st.ww, wf |-> r.st.wf],
    inner |-> { r.st.visited[k] : k \in (Len(st0.visited) + 2)..Len(r.st.visited) },
    how  |-> r.how,
    elements |-> r.elements,
    scan |-> OfParent(r.st.its, element) ]

Logged(element, st0, r) ==
  [res |-> r.res, st |-> [r.st EXCEPT !.log = Append(@, LogEntry(element, st0, r))]]

\* one walkDOM call, entered in st.visited and, when it returns, in st.log
\* with how it returned, the running elements and the iterations of its scan
WalkDOM(d, tr, sourceLen, element, st0) ==
  Logged(element, st0,
         WalkBody(d, tr, sourceLen, element, [st0 EXCEPT !.visited = Append(@, element)]))

\* lines 158-302
FindMatchingNodes(root, targetRange, sourceLen) ==
  WalkDOM(root, targetRange, sourceLen, 1,
          [co |-> Null, ww |-> FALSE, wf |-> FALSE, visited |-> <<>>, log |-> <<>>,
           its |-> <<>>])

(***************************************************************************)
(* The matcher applied to one document and one target range.               *)
(***************************************************************************)
VARIABLES doc, targetRange, mpc, mres, mlog

matchVars == <<doc, targetRange, mpc, mres, mlog>>

\* One call of checkIfSignificant(offsets, data):
\*   data           its data argument: both wikitexts, both parsed documents
\*                  and what their data-parsoid says about fostered content
\*   offsets        its offsets argument, as the call has left it so far
\*   givenOffsets   the offsets argument as the caller passed it
\*   results        the results array
\*   ci             the loop variable i of lines 381-436, counted from 1
\*   cpc            where the call stands: "start", "regions", "returned"
\*   htmlDiffCalls  how often Diff.htmlDiff has been called
\*   regionLog      per finished iteration of the loop of lines 381-436: the
\*                  spans handed to findMatchingNodes, what it returned, both
\*                  fragments and the diff
VARIABLES data, offsets, givenOffsets, results, ci, cpc, htmlDiffCalls, regionLog

checkVars == <<data, offsets, givenOffsets, results, ci, cpc, htmlDiffCalls, regionLog>>

\* One call of fetch(title, options, formatter):
\*   fopt            what options names: "prefix" (in the interwiki map),
\*                   "unknownPrefix" (not in it), "domain" or "none"
\*   fpc             where the promise chain of lines 555-643 stands
\*   inflight        the requests that were issued and have not been answered
\*   ftrace          the requests issued and answered and the calls of
\*                   checkIfSignificant and of the formatter, in order
\*   fdata           the data object of line 554
\*   fres            what the last roundTripDiff returned (result objects)
\*   heap            the result objects made so far; an object is named by
\*                   its index
\*   ferr            the error the chain was rejected with
\*   formatterCalls  the calls of the formatter: its err and results arguments
\*   attempts        the HTTP requests made so far for the parsoidPost under way
VARIABLES fopt, fpc, inflight, ftrace, fdata, fres, heap, ferr, formatterCalls,
          attempts

fetchVars ==
  <<fopt, fpc, inflight, ftrace, fdata, fres, heap, ferr, formatterCalls, attempts>>

\* findMatchingNodes called several times on one document: the variables of
\* lines 159-161 as the last call left them (mstate), as the call before it
\* left them (mprev) and as the last call found them (mentry), and the number
\* of calls made
VARIABLES mstate, mprev, mentry, mcalls

callVars == <<mstate, mprev, mentry, mcalls>>

\* normalizeWikitext applied to a string and to its own output
VARIABLES nstr, nouts

normVars == <<nstr, nouts>>

\* xmlFormat: its arguments err, results and profile, its output, its position
VARIABLES xerr, xresults, xprofile, xout, xpc

xmlVars == <<xerr, xresults, xprofile, xout, xpc>>

\* the response helpers of apiUtils called one after the other for one request:
\*   responseSent  env.responseSent
\*   headersSent   res.headersSent
\*   resOps        the calls made on res, in order
\*   apiLog        the helper calls made: the helper, whether the response
\*                 counted as sent when it was called, and the length of resOps
\*                 before and after it
VARIABLES responseSent, headersSent, resOps, apiLog

apiVars == <<responseSent, headersSent, resOps, apiLog>>

\* cpuTimeout(p, res), for the requests one process is serving:
\*   cenv       "worker", "master" or "oldNode" (a worker on node before 0.10.0)
\*   csent      the messages given to process.send, in order
\* and for each request
\*   cid        res.locals.timeoutId
\*   cwrapped   the state of the promise p
\*   creactions the reactions registered on p that have not run yet, in order
\*   creturned  the state of the promise cpuTimeout returned
\*   cstep      "ready" before the call, "called" after it
VARIABLES cenv, cid, cwrapped, creactions, csent, creturned, cstep

cpuVars == <<cenv, cid, cwrapped, creactions, csent, creturned, cstep>>

\* startHtml2wt and endHtml2wt:
\*   eoldid     res.locals.oldid
\*   econf      env.conf.parsoid.useSelser
\*   estats     is env.conf.parsoid.stats set
\*   epageId    env.page.id
\*   emode      the useSelser argument DU.serializeDOM was called with
\*   etimings   the stats.timing calls made
\*   epc        "ready", "started", "serializing" or "done"
VARIABLES eoldid, econf, estats, epageId, emode, etimings, epc

endVars == <<eoldid, econf, estats, epageId, emode, etimings, epc>>

\* errorHandler and errorWrapper, called one after the other with one env:
\*   hlog       the calls of env.log, in order: the level and the error as it
\*              is when it is logged
\*   hcalls     the calls made: the function, its argument as it was passed,
\*              how its promise settled (errorWrapper) and how many env.log
\*              calls there were before and after it
\*   hpending   the place in hcalls of the errorWrapper call whose promise has
\*              not settled, 0 when there is none
VARIABLES hlog, hcalls, hpending

errVars == <<hlog, hcalls, hpending>>

\* substTopLevelTemplates(env, target, wt):
\*   swt        its wt argument, a string of characters
\*   stokens    what the tokenizer returns for it: each token's name and tsr
\*   ssent      the wikitext handed to PHPParseRequest.promise
\*   spc        "ready" before the call and "done" after it
VARIABLES swt, stokens, ssent, spc

substVars == <<swt, stokens, ssent, spc>>

utilVars == <<errVars, substVars>>

serviceVars == <<apiVars, cpuVars, endVars, utilVars>>

vars == <<matchVars, checkVars, fetchVars, callVars, normVars, xmlVars, serviceVars>>

\* what a step of one function leaves alone: the state of the others
notMatchVars == <<checkVars, fetchVars, callVars, normVars, xmlVars, serviceVars>>
notCheckVars == <<matchVars, fetchVars, callVars, normVars, xmlVars, serviceVars>>
notFetchVars == <<matchVars, checkVars, callVars, normVars, xmlVars, serviceVars>>
notCallVars == <<checkVars, fetchVars, normVars, xmlVars, serviceVars>>
notNormVars == <<matchVars, checkVars, fetchVars, callVars, xmlVars, serviceVars>>
notXmlVars == <<matchVars, checkVars, fetchVars, callVars, normVars, serviceVars>>
testVars == <<matchVars, checkVars, fetchVars, callVars, normVars, xmlVars>>
notApiVars == <<testVars, cpuVars, endVars, utilVars>>
notCpuVars == <<testVars, apiVars, endVars, utilVars>>
notEndVars == <<testVars, apiVars, cpuVars, utilVars>>
notErrVars == <<testVars, apiVars, cpuVars, endVars, substVars>>
notSubstVars == <<testVars, apiVars, cpuVars, endVars, errVars>>

\* JavaScript undefined
Undefined == "undefined"

\* lines 159-161: the variables of a call of findMatchingNodes as declared
UnsetState == [co |-> Null, ww |-> FALSE, wf |-> FALSE]

\* no sequence of calls of findMatchingNodes is under way
CallIdle ==
  /\ mstate = UnsetState
  /\ mprev = UnsetState
  /\ mentry = UnsetState
  /\ mcalls = 0

\* normalizeWikitext is not being applied
NormIdle ==
  /\ nstr = <<>>
  /\ nouts = <<>>

\* no call of xmlFormat is under way
XmlIdle ==
  /\ xerr = Undefined
  /\ xresults = <<>>
  /\ xprofile = Undefined
  /\ xout = <<>>
  /\ xpc = "idle"

\* no response helper has been called
ApiIdle ==
  /\ responseSent = FALSE
  /\ headersSent = FALSE
  /\ resOps = <<>>
  /\ apiLog = <<>>

\* cpuTimeout is not called
CpuIdle ==
  /\ cenv = "master"
  /\ cid = <<>>
  /\ cwrapped = <<>>
  /\ creactions = <<>>
  /\ csent = <<>>
  /\ creturned = <<>>
  /\ cstep = <<>>

\* no serialization request is under way
EndIdle ==
  /\ eoldid = Undefined
  /\ econf = Undefined
  /\ estats = FALSE
  /\ epageId = Undefined
  /\ emode = Undefined
  /\ etimings = <<>>
  /\ epc = "idle"

\* the API server is idle
\* errorHandler and errorWrapper are not called
ErrIdle ==
  /\ hlog = <<>>
  /\ hcalls = <<>>
  /\ hpending = 0

\* substTopLevelTemplates is not called
SubstIdle ==
  /\ swt = <<>>
  /\ stokens = <<>>
  /\ ssent = <<>>
  /\ spc = "idle"

UtilIdle == ErrIdle /\ SubstIdle

ServiceIdle == ApiIdle /\ CpuIdle /\ EndIdle /\ UtilIdle

\* nothing but the function under study is running
OthersIdle == CallIdle /\ NormIdle /\ XmlIdle /\ ServiceIdle

\* no call of fetch is under way
FetchIdle ==
  /\ fopt = "none"
  /\ fpc = "idle"
  /\ inflight = {}
  /\ ftrace = <<>>
  /\ fdata = <<>>
  /\ fres = <<>>
  /\ heap = <<>>
  /\ ferr = Undefined
  /\ formatterCalls = <<>>
  /\ attempts = 0

\* no call of checkIfSignificant is under way
CheckIdle ==
  /\ data = <<>>
  /\ offsets = <<>>
  /\ givenOffsets = <<>>
  /\ results = <<>>
  /\ ci = 0
  /\ cpc = "idle"
  /\ htmlDiffCalls = 0
  /\ regionLog = <<>>

Ranges(n) == { [start |-> s, end |-> e] : s \in 0..n, e \in 0..n }

MatchInit ==
  /\ doc \in Docs
  /\ targetRange \in { r \in Ranges(doc.srcLen) : r.start <= r.end }
  /\ mpc = "ready"
  /\ mres = NullRes
  /\ mlog = <<>>
  /\ CheckIdle
  /\ FetchIdle
  /\ OthersIdle

Match ==
  /\ mpc = "ready"
  /\ LET r == FindMatchingNodes(doc, targetRange, doc.srcLen)
     IN  /\ mres' = r.res
         /\ mlog' = r.st.log
  /\ mpc' = "done"
  /\ UNCHANGED <<doc, targetRange>>
  /\ UNCHANGED notMatchVars

MatchNext == Match

SpecMatch == MatchInit /\ [][MatchNext]_vars

\* The documents in which every element carries both offsets and none ends at
\* offset 0, so that the defaults of lines 169-170 play no part.
AllSpansKnown(d) ==
  \A k \in 1..d.n :
    IsElt(d, k) => d.dsr[k] # <<>> /\ d.dsr[k][1] # Null /\ Truthy(d.dsr[k][2])

KnownDocs == { d \in DocsOf(Shapes, {"full"}) : AllSpansKnown(d) }

MatchInitKnown ==
  /\ doc \in KnownDocs
  /\ targetRange \in { r \in Ranges(doc.srcLen) : r.start <= r.end }
  /\ mpc = "ready"
  /\ mres = NullRes
  /\ mlog = <<>>
  /\ CheckIdle
  /\ FetchIdle
  /\ OthersIdle

SpecMatchKnown == MatchInitKnown /\ [][MatchNext]_vars

\* The target is what a run of whole sibling nodes x .. y contributes to the
\* source, x and y being elements: it starts where x starts and ends where y
\* ends.
Aligned(d, tr) ==
  /\ tr.start < tr.end
  /\ \E x, y \in 2..d.n :
       /\ IsElt(d, x) /\ IsElt(d, y)
       /\ d.parent[x] = d.parent[y]
       /\ x <= y
       /\ tr.start = d.span[x][1]
       /\ tr.end = d.span[y][2]

MatchInitAligned == MatchInitKnown /\ Aligned(doc, targetRange)

SpecMatchAligned == MatchInitAligned /\ [][MatchNext]_vars

\* Documents in which the parser left the end of an element's span unknown
\* (dsr = [start, null]) at any element, not only at the root: findMatchingNodes
\* reads dsr[1] of every element through "|| sourceLen - 1".
PartialModes == {"full", "nullEnd"}

MatchInitPartial ==
  /\ doc \in DocsOf(Shapes, PartialModes)
  /\ targetRange \in { r \in Ranges(doc.srcLen) : r.start <= r.end }
  /\ mpc = "ready"
  /\ mres = NullRes
  /\ mlog = <<>>
  /\ CheckIdle
  /\ FetchIdle
  /\ OthersIdle

SpecMatchPartial == MatchInitPartial /\ [][MatchNext]_vars

(***************************************************************************)
(* Helpers for the properties of the matcher.                              *)
(***************************************************************************)
MatchDone == mpc = "done"
LogEntries == { mlog[i] : i \in 1..Len(mlog) }
SeqToSet(q) == { q[i] : i \in 1..Len(q) }

RECURSIVE IsProperDescendant(_, _, _)
IsProperDescendant(d, x, a) ==
  IF d.parent[x] = 0 THEN FALSE
  ELSE d.parent[x] = a \/ IsProperDescendant(d, d.parent[x], a)

\* the span metadata of the node holds two genuine offsets equal to the target
SpanEqualsTarget(d, n, tr) ==
  /\ d.dsr[n] # <<>>
  /\ d.dsr[n][1] # Null /\ d.dsr[n][2] # Null
  /\ d.dsr[n][1] = tr.start /\ d.dsr[n][2] = tr.end

\* C1 as stated: a visited node whose span, with a genuine start, equals the
\* target is returned as {done: true, nodes: [node]} and none of its children
\* is visited.
C1_ExactMatchAnyTarget ==
  MatchDone =>
    \A e \in LogEntries :
      SpanEqualsTarget(doc, e.node, targetRange)
        => e.res = Res(TRUE, <<e.node>>) /\ e.inner = {}

\* C1 (amended): the same for a target range that is not empty.
C1_ExactMatch ==
  MatchDone =>
    \A e \in LogEntries :
      (SpanEqualsTarget(doc, e.node, targetRange)
        /\ targetRange.start < targetRange.end)
        => e.res = Res(TRUE, <<e.node>>) /\ e.inner = {}

\* an element with children was visited below the root and matched exactly
C1_Witness ==
  /\ MatchDone
  /\ \E e \in LogEntries :
       /\ SpanEqualsTarget(doc, e.node, targetRange)
       /\ targetRange.start < targetRange.end
       /\ e.node # 1
       /\ doc.kids[e.node] # <<>>
       /\ e.res = Res(TRUE, <<e.node>>)

\* the node carries span metadata with two genuine offsets [s, e)
HasKnownSpan(d, n) ==
  d.dsr[n] # <<>> /\ d.dsr[n][1] # Null /\ d.dsr[n][2] # Null

\* C2: a node whose known span [s, e) is disjoint from the target
\* (target.end <= s or target.start >= e) makes walkDOM return null, visit no
\* descendant, and leave currentOffset and waitingForEndMatch as they were.
C2_Pruning ==
  MatchDone =>
    \A e \in LogEntries :
      (/\ HasKnownSpan(doc, e.node)
       /\ \/ targetRange.end <= doc.dsr[e.node][1]
          \/ targetRange.start >= doc.dsr[e.node][2])
        => /\ e.res = NullRes
           /\ e.inner = {}
           /\ e.post.co = e.pre.co
           /\ e.post.wf = e.pre.wf

\* every node walkDOM or its child scan looked at
Visited == IF mlog = <<>> THEN {} ELSE {1} \cup mlog[Len(mlog)].inner

\* C3: the result never holds a proper descendant of an encapsulated
\* (mw:Transclusion, mw:Param, mw:Extension/*) node, and the matcher never
\* looks at a node below one.
C3_Atomicity ==
  MatchDone =>
    \A a \in 1..doc.n :
      IsEncapsulated(doc, a) =>
        /\ \A x \in SeqToSet(mres.nodes) : ~IsProperDescendant(doc, x, a)
        /\ \A x \in Visited : ~IsProperDescendant(doc, x, a)

\* source length of a returned node: the length of its span for an element,
\* the accounted length for a text or comment node
SourceLenOf(d, n) ==
  IF IsElt(d, n) THEN d.span[n][2] - d.span[n][1] ELSE NodeLen(d, n)

RECURSIVE SumSourceLen(_, _, _)
SumSourceLen(d, q, i) ==
  IF i > Len(q) THEN 0 ELSE SourceLenOf(d, q[i]) + SumSourceLen(d, q, i + 1)

\* C4: when findMatchingNodes returns a result, the source lengths of the
\* returned nodes add up to target.end - target.start.
C4_Coverage ==
  (MatchDone /\ ~mres.null) =>
    SumSourceLen(doc, mres.nodes, 1) = targetRange.end - targetRange.start

\* the nodes of q that carry a known span, in order
RECURSIVE WithKnownSpan(_, _, _)
WithKnownSpan(d, q, i) ==
  IF i > Len(q) THEN <<>>
  ELSE (IF IsElt(d, q[i]) /\ HasKnownSpan(d, q[i]) THEN <<q[i]>> ELSE <<>>)
       \o WithKnownSpan(d, q, i + 1)

\* C5: whenever walkDOM returns done = true, waitingForEndMatch is false and
\* the last returned node with a known span ends at or after target.end.
C5_DoneReachesEnd ==
  MatchDone =>
    \A e \in LogEntries :
      (~e.res.null /\ e.res.done) =>
        /\ ~e.post.wf
        /\ LET known == WithKnownSpan(doc, e.res.nodes, 1)
           IN  known # <<>> => doc.dsr[known[Len(known)]][2] >= targetRange.end

\* C6: every result of walkDOM that is not null has at least one node.
C6_NonEmptyNodes ==
  /\ \A e \in LogEntries : ~e.res.null => Len(e.res.nodes) > 0
  /\ ~mres.null => Len(mres.nodes) > 0

\* the child scan of the root walked an element child and returned a partial
\* sequence of several nodes
C6_Witness ==
  /\ MatchDone
  /\ Len(mlog) > 1
  /\ ~mres.null /\ Len(mres.nodes) > 1 /\ Len(mres.nodes) < Len(doc.kids[1])

(***************************************************************************)
(* Wikitext.  A string is a sequence of one-character strings.             *)
(***************************************************************************)
\* s.charAt(i - 1), "" outside the string
At(s, i) == IF i \in 1..Len(s) THEN s[i] ELSE ""

\* String.prototype.substring(a, b) with 0-based arguments: both are clamped
\* to 0..length and swapped when a > b
Clamp(s, a) == IF a < 0 THEN 0 ELSE IF a > Len(s) THEN Len(s) ELSE a
Substring(s, a, b) ==
  LET x == Clamp(s, a)
      y == Clamp(s, b)
  IN  IF x <= y THEN SubSeq(s, x + 1, y) ELSE SubSeq(s, y + 1, x)

\* String.prototype.substr(start, length) as line 388 uses it
Substr(s, start, length) ==
  LET x == IF start < 0 THEN (IF Len(s) + start < 0 THEN 0 ELSE Len(s) + start)
           ELSE IF start > Len(s) THEN Len(s) ELSE start
      n == IF length < 0 THEN 0
           ELSE IF x + length > Len(s) THEN Len(s) - x ELSE length
  IN  SubSeq(s, x + 1, x + n)

\* the smallest index >= from at which s holds a character of cs; Len(s) + 1
\* when there is none
RECURSIVE FirstOf(_, _, _)
FirstOf(s, cs, from) ==
  IF from > Len(s) THEN Len(s) + 1
  ELSE IF s[from] \in cs THEN from
  ELSE FirstOf(s, cs, from + 1)

\* the smallest index >= from at which s holds a character outside cs
RECURSIVE FirstNotOf(_, _, _)
FirstNotOf(s, cs, from) ==
  IF from > Len(s) THEN Len(s) + 1
  ELSE IF s[from] \notin cs THEN from
  ELSE FirstNotOf(s, cs, from + 1)

\* s holds the literal lit at index i
HasAt(s, lit, i) ==
  /\ i >= 1 /\ i + Len(lit) - 1 <= Len(s)
  /\ \A k \in 1..Len(lit) : s[i + k - 1] = lit[k]

UpperCase == {"A", "B", "C", "D", "E", "L", "M", "N", "R", "S", "T", "Y"}

\* one character of String.prototype.toLowerCase
LowerChar(c) ==
  CASE c = "A" -> "a" [] c = "B" -> "b" [] c = "C" -> "c" [] c = "D" -> "d"
    [] c = "E" -> "e" [] c = "L" -> "l" [] c = "M" -> "m" [] c = "N" -> "n"
    [] c = "R" -> "r" [] c = "S" -> "s" [] c = "T" -> "t" [] c = "Y" -> "y"
    [] OTHER -> c

ToLowerCase(s) == [k \in 1..Len(s) |-> LowerChar(s[k])]

\* \s of the regular expressions
WhiteSpace == {" ", "\t", "\n"}

\* lines 306-307: str.replace(/^\t/, ' ') and str.replace(/\n\t/g, '\n ')
LeadingTabs(s) ==
  [k \in 1..Len(s) |->
     IF s[k] = "\t" /\ (k = 1 \/ s[k - 1] = "\n") THEN " " ELSE s[k]]

\* line 309: str.replace(/ +/g, ' ')
RECURSIVE CollapseSpaces(_, _)
CollapseSpaces(s, i) ==
  IF i > Len(s) THEN <<>>
  ELSE IF s[i] = " " /\ At(s, i - 1) = " " THEN CollapseSpaces(s, i + 1)
  ELSE <<s[i]>> \o CollapseSpaces(s, i + 1)

\* lines 314-318: /<(\/?)([^ >\/]+)((?:[^>\/]|\/(?!>))*)\/?>/g, the tag name
\* lower-cased, one space before the end of the tag and the / of a void tag
\* dropped
RECURSIVE NormalizeTags(_, _)
NormalizeTags(s, i) ==
  IF i > Len(s) THEN <<>>
  ELSE
  LET j       == IF At(s, i + 1) = "/" THEN i + 2 ELSE i + 1
      e       == FirstOf(s, {">"}, j + 1)
      nameEnd == FirstOf(s, {" ", ">", "/"}, j) - 1
      remEnd  == IF s[e - 1] = "/" /\ e - 1 > nameEnd THEN e - 2 ELSE e - 1
      rem     == SubSeq(s, nameEnd + 1, remEnd)
      rem2    == IF rem # <<>> /\ rem[Len(rem)] = " "
                 THEN SubSeq(rem, 1, Len(rem) - 1) ELSE rem
  IN  IF /\ s[i] = "<"
         /\ At(s, j) \notin {"", " ", ">", "/"}
         /\ e <= Len(s)
      THEN <<"<">> \o SubSeq(s, i + 1, j - 1) \o ToLowerCase(SubSeq(s, j, nameEnd))
           \o rem2 \o <<">">> \o NormalizeTags(s, e + 1)
      ELSE <<s[i]>> \o NormalizeTags(s, i + 1)

\* length of (\{\||\|[\-+]*|!) at index p, 0 when it does not match
CellMarkLen(s, p) ==
  IF At(s, p) = "{" /\ At(s, p + 1) = "|" THEN 2
  ELSE IF At(s, p) = "|" THEN FirstNotOf(s, {"-", "+"}, p + 1) - p
  ELSE IF At(s, p) = "!" THEN 1
  ELSE 0

\* s without its leading and trailing spaces
RECURSIVE TrimSpaces(_)
TrimSpaces(s) ==
  IF s = <<>> THEN s
  ELSE IF s[1] = " " THEN TrimSpaces(Tail(s))
  ELSE IF s[Len(s)] = " " THEN TrimSpaces(SubSeq(s, 1, Len(s) - 1))
  ELSE s

\* line 320:
\* /(^|\n|\|(?=\|)|!(?=!))(\{\||\|[\-+]*|!) *([^|\n]*?) *(?=[|\n]|$)/g -> '$1$2$3'
RECURSIVE NormalizeCells(_, _)
NormalizeCells(s, i) ==
  IF i > Len(s) THEN <<>>
  ELSE
  LET \* where group 2 starts: at i after ^, or at i + 1 after a newline, a | before
      \* a |, or a ! before a !; 0 when group 1 and group 2 do not match at i
      p == IF i = 1 /\ CellMarkLen(s, i) > 0 THEN i
           ELSE IF /\ \/ s[i] = "\n"
                      \/ s[i] = "|" /\ At(s, i + 1) = "|"
                      \/ s[i] = "!" /\ At(s, i + 1) = "!"
                   /\ CellMarkLen(s, i + 1) > 0
           THEN i + 1
           ELSE 0
      q == p + CellMarkLen(s, p)
      b == FirstOf(s, {"|", "\n"}, q)
  IN  IF p > 0
      THEN SubSeq(s, i, q - 1) \o TrimSpaces(SubSeq(s, q, b - 1)) \o NormalizeCells(s, b)
      ELSE <<s[i]>> \o NormalizeCells(s, i + 1)

\* match.replace(/\s|;(?=")/g, '') of line 323
RECURSIVE StripStyle(_, _)
StripStyle(m, i) ==
  IF i > Len(m) THEN <<>>
  ELSE IF m[i] \in WhiteSpace \/ (m[i] = ";" /\ At(m, i + 1) = "\"")
  THEN StripStyle(m, i + 1)
  ELSE <<m[i]>> \o StripStyle(m, i + 1)

\* lines 322-324: /style\s*=\s*"[^"]+"/g
RECURSIVE NormalizeStyle(_, _)
NormalizeStyle(s, i) ==
  IF i > Len(s) THEN <<>>
  ELSE
  LET eq    == FirstNotOf(s, WhiteSpace, i + 5)
      open  == FirstNotOf(s, WhiteSpace, eq + 1)
      close == FirstOf(s, {"\""}, open + 1)
  IN  IF /\ HasAt(s, <<"s", "t", "y", "l", "e">>, i)
         /\ At(s, eq) = "="
         /\ At(s, open) = "\""
         /\ close > open + 1
         /\ close <= Len(s)
      THEN StripStyle(SubSeq(s, i, close), 1) \o NormalizeStyle(s, close + 1)
      ELSE <<s[i]>> \o NormalizeStyle(s, i + 1)

\* line 326: str.replace(/"([^"]*?)"/g, '$1')
RECURSIVE StripQuotes(_, _)
StripQuotes(s, i) ==
  IF i > Len(s) THEN <<>>
  ELSE
  LET close == FirstOf(s, {"\""}, i + 1)
  IN  IF s[i] = "\"" /\ close <= Len(s)
      THEN SubSeq(s, i + 1, close - 1) \o StripQuotes(s, close + 1)
      ELSE <<s[i]>> \o StripQuotes(s, i + 1)

SmallClose == <<"<", "/", "s", "m", "a", "l", "l", ">">>
CenterClose == <<"<", "/", "c", "e", "n", "t", "e", "r", ">">>

\* length of <\/(?:small|center)> at index p, 0 when it does not match; the i flag
\* of line 330 ignores case
ClosingLen(s, p, ignoreCase) ==
  LET t == IF ignoreCase THEN ToLowerCase(s) ELSE s
  IN  IF HasAt(t, SmallClose, p) THEN Len(SmallClose)
      ELSE IF HasAt(t, CenterClose, p) THEN Len(CenterClose)
      ELSE 0

\* (?=\n[|!]|\n?$) at index t
CellOrEndAhead(s, t) ==
  \/ At(s, t) = "\n" /\ At(s, t + 1) \in {"|", "!"}
  \/ t = Len(s) + 1
  \/ At(s, t) = "\n" /\ t = Len(s)

\* line 329: str.replace(/(^|\n)<\/(?:small|center)>(?=\n[|!]|\n?$)/g, '')
RECURSIVE DropLineClosing(_, _)
DropLineClosing(s, i) ==
  IF i > Len(s) THEN <<>>
  ELSE
  LET p == IF i = 1 /\ ClosingLen(s, i, FALSE) > 0
              /\ CellOrEndAhead(s, i + ClosingLen(s, i, FALSE))
           THEN i
           ELSE IF s[i] = "\n" /\ ClosingLen(s, i + 1, FALSE) > 0
                   /\ CellOrEndAhead(s, i + 1 + ClosingLen(s, i + 1, FALSE))
           THEN i + 1
           ELSE 0
  IN  IF p > 0
      THEN DropLineClosing(s, p + ClosingLen(s, p, FALSE))
      ELSE <<s[i]>> \o DropLineClosing(s, i + 1)

\* the .*? of line 330: the first index k >= from, with no newline in between,
\* at which a closing small or center tag stands before a cell or the end; 0
\* when there is none
RECURSIVE CellClosingAt(_, _)
CellClosingAt(s, k) ==
  IF k > Len(s) THEN 0
  ELSE IF ClosingLen(s, k, TRUE) > 0 /\ CellOrEndAhead(s, k + ClosingLen(s, k, TRUE))
  THEN k
  ELSE IF s[k] = "\n" THEN 0
  ELSE CellClosingAt(s, k + 1)

\* line 330: str.replace(/([|!].*?)<\/(?:small|center)>(?=\n[|!]|\n?$)/gi, '$1')
RECURSIVE DropCellClosing(_, _)
DropCellClosing(s, i) ==
  IF i > Len(s) THEN <<>>
  ELSE
  LET k == IF s[i] \in {"|", "!"} THEN CellClosingAt(s, i + 1) ELSE 0
  IN  IF k > 0
      THEN SubSeq(s, i, k - 1) \o DropCellClosing(s, k + ClosingLen(s, k, TRUE))
      ELSE <<s[i]>> \o DropCellClosing(s, i + 1)

\* lines 304-332
NormalizeWikitext(str) ==
  LET s1 == CollapseSpaces(LeadingTabs(str), 1)
      s2 == NormalizeTags(s1, 1)
      s3 == NormalizeCells(s2, 1)
      s4 == NormalizeStyle(s3, 1)
      s5 == StripQuotes(s4, 1)
      s6 == DropLineClosing(s5, 1)
  IN  DropCellClosing(s6, 1)

(***************************************************************************)
(* HTML.  A serialization is a sequence of tokens; an element carries its  *)
(* data-parsoid (applied by DU.applyDataParsoid, lines 351-353) as the     *)
(* tokens between "data-parsoid" and the end of its opening tag.           *)
(***************************************************************************)
\* the node whose data-parsoid holds "fostered": true when dp says so: the first
\* element below the body
FosteredNode(d) == CHOOSE k \in 2..d.n : IsElt(d, k) /\ \A j \in 2..(k - 1) : ~IsElt(d, j)

TagOf(d, c) ==
  IF d.enc[c] THEN "<transclusion" ELSE IF d.cont[c] THEN "<about" ELSE "<elt"

\* DU.serializeNode(node) / node.outerHTML
RECURSIVE SerializeNode(_, _, _), SerializeNodes(_, _, _, _)
SerializeNode(d, dp, c) ==
  IF d.kind[c] = "text" THEN [k \in 1..d.len[c] |-> "x"]
  ELSE IF d.kind[c] = "comment"
  THEN <<"<!--">> \o [k \in 1..d.len[c] |-> "c"] \o <<"-->">>
  ELSE <<TagOf(d, c), "data-parsoid", ToString(d.dsr[c])>>
       \o (IF dp.fostered /\ c = FosteredNode(d) THEN <<"fostered:true">> ELSE <<>>)
       \o <<">">> \o SerializeNodes(d, dp, d.kids[c], 1) \o <<"</>">>
SerializeNodes(d, dp, ks, i) ==
  IF i > Len(ks) THEN <<>>
  ELSE SerializeNode(d, dp, ks[i]) \o SerializeNodes(d, dp, ks, i + 1)

\* /("|&quot;)fostered("|&quot;)\s*:\s*true\b/.test(html), line 360
HasFostered(html) == \E k \in 1..Len(html) : html[k] = "fostered:true"

\* DU.normalizeOut: the serialization without the data-parsoid attributes
RECURSIVE StripDataParsoid(_, _, _)
StripDataParsoid(html, i, inDp) ==
  IF i > Len(html) THEN <<>>
  ELSE IF html[i] = "data-parsoid" THEN StripDataParsoid(html, i + 1, TRUE)
  ELSE IF html[i] = ">" THEN <<html[i]>> \o StripDataParsoid(html, i + 1, FALSE)
  ELSE IF inDp THEN StripDataParsoid(html, i + 1, TRUE)
  ELSE <<html[i]>> \o StripDataParsoid(html, i + 1, FALSE)

NormalizeOut(html) == StripDataParsoid(html, 1, FALSE)

\* Diff.htmlDiff(a, b): no change for equal input, one change otherwise
HtmlDiff(a, b) == IF a = b THEN <<>> ELSE <<[removed |-> a, added |-> b]>>

(***************************************************************************)
(* checkIfSignificant (lines 344-438).                                     *)
(***************************************************************************)
\* most offset pairs in one call
MaxOffsets == 2

\* context of the wikitext excerpt of a semantic diff, line 432
FailContext == 25

\* lines 335-342; offset[0] and offset[1] are offset[1] and offset[2] here
FormatDiff(oldWt, newWt, offset, context) ==
  <<"-", "-", "-", "-", "\n">>
  \o Substring(oldWt, offset[1].start - context, offset[1].end + context)
  \o <<"\n", "+", "+", "+", "+", "\n">>
  \o Substring(newWt, offset[2].start - context, offset[2].end + context)

\* x.match(/^\n?<\/[^>]+>\n?$/), line 389
IsImplicitClose(x) ==
  LET p == IF At(x, 1) = "\n" THEN 2 ELSE 1
      g == FirstOf(x, {">"}, p + 2)
  IN  /\ At(x, p) = "<"
      /\ At(x, p + 1) = "/"
      /\ g > p + 2
      /\ g <= Len(x)
      /\ \/ g = Len(x)
         \/ g = Len(x) - 1 /\ x[Len(x)] = "\n"

\* lines 387-389
ImplicitlyClosed(newWt, offset) ==
  /\ offset[1].start = offset[1].end
  /\ IsImplicitClose(Substr(newWt, offset[2].start, offset[2].end - offset[2].start))

\* the quick test with the two serializations compared as they are
QuickTestUnnormalized(oldOuter, newOuter) ==
  /\ ~HasFostered(oldOuter)
  /\ oldOuter = newOuter

\* lines 360-365: the quick test for no semantic diffs
QuickTest(oldOuter, newOuter) ==
  /\ ~HasFostered(oldOuter)
  /\ NormalizeOut(oldOuter) = NormalizeOut(newOuter)

\* lines 424-427 with the excerpts compared as they are
IsSemanticUnnormalized(diff, wt1, wt2) ==
  /\ Len(diff) > 0
  /\ wt1 # wt2

\* lines 424-427: is the region a semantic diff
IsSemantic(diff, wt1, wt2) ==
  /\ Len(diff) > 0
  /\ NormalizeWikitext(wt1) # NormalizeWikitext(wt2)

\* results.unshift(r)
Unshift(rs, r) == <<r>> \o rs

\* results.push(r), lines 368 and 435
Push(rs, r) == Append(rs, r)

\* lines 366-375: one skip result per offset pair
RECURSIVE SkipAll(_, _, _)
SkipAll(oldWt, newWt, offs) ==
  IF offs = <<>> THEN <<>>
  ELSE Push(SkipAll(oldWt, newWt, SubSeq(offs, 1, Len(offs) - 1)),
            [ type |-> "skip", offset |-> Len(offs),
              wtDiff |-> FormatDiff(oldWt, newWt, offs[Len(offs)], 0),
              hasHtmlDiff |-> FALSE, htmlDiff |-> <<>> ])

\* lines 344-378: up to the quick test and, when it succeeds, the return of
\* line 376
CheckStart ==
  /\ cpc = "start"
  /\ IF QuickTest(SerializeNode(data.oldHTML, data.oldDp, 1),
                  SerializeNode(data.newHTML, data.newDp, 1))
     THEN /\ results' = SkipAll(data.oldWt, data.newWt, offsets)
          /\ ci' = Len(offsets) + 1
          /\ cpc' = "returned"
     ELSE /\ results' = <<>>
          /\ ci' = 1
          /\ cpc' = "regions"
  /\ UNCHANGED <<data, offsets, givenOffsets, htmlDiffCalls, regionLog>>
  /\ UNCHANGED notCheckVars

\* lines 387-395: the offset pair after the fudge for an implicitly closed
\* element
\* lines 387-395 with the start moved for every old span of length zero
AdjustAnyEmpty(newWt, offset) ==
  IF offset[1].start = offset[1].end
  THEN [offset EXCEPT ![1].start = @ - 1]
  ELSE offset

AdjustOffset(newWt, offset) ==
  IF ImplicitlyClosed(newWt, offset)
  THEN [offset EXCEPT ![1].start = @ - 1]
  ELSE offset

\* lines 397-403 and 405-411: the normalized HTML of the nodes that
\* findMatchingNodes returned, of no nodes when it returned null
FragmentHTML(d, dp, res) ==
  NormalizeOut(SerializeNodes(d, dp, IF res.null THEN <<>> ELSE res.nodes, 1))

\* lines 385 and 420-434: the result of region i
ThisResult(i, offset, diff, semantic) ==
  [ type |-> IF semantic THEN "fail" ELSE "skip",
    offset |-> i,
    wtDiff |-> FormatDiff(data.oldWt, data.newWt, offset,
                          IF semantic THEN FailContext ELSE 0),
    hasHtmlDiff |-> semantic,
    htmlDiff |-> IF semantic THEN diff ELSE <<>> ]

\* lines 413-435, both fragments being known
Classify(i, offset, oldRes, newRes, origHTML, newHTML, wt1, wt2, diff) ==
  /\ results' = Push(results, ThisResult(i, offset, diff, IsSemantic(diff, wt1, wt2)))
  /\ htmlDiffCalls' = htmlDiffCalls + 1
  /\ regionLog' = Append(regionLog,
       [ oldSpan |-> offset[1], newSpan |-> offset[2],
         oldRes |-> oldRes, newRes |-> newRes,
         origHTML |-> origHTML, newHTML |-> newHTML,
         wt1 |-> wt1, wt2 |-> wt2, diff |-> diff ])

\* lines 398-418, both results of findMatchingNodes being known
Compare(i, offset, oldRes, newRes, origHTML, newHTML) ==
  Classify(i, offset, oldRes, newRes, origHTML, newHTML,
           Substring(data.oldWt, offset[1].start, offset[1].end),
           Substring(data.newWt, offset[2].start, offset[2].end),
           HtmlDiff(origHTML, newHTML))

\* lines 398-411 with a region left out when findMatchingNodes returned null
MatchedOrNone(i, offset, oldRes, newRes) ==
  IF oldRes.null \/ newRes.null
  THEN UNCHANGED <<results, htmlDiffCalls, regionLog>>
  ELSE Compare(i, offset, oldRes, newRes,
               FragmentHTML(data.oldHTML, data.oldDp, oldRes),
               FragmentHTML(data.newHTML, data.newDp, newRes))

Matched(i, offset, oldRes, newRes) ==
  Compare(i, offset, oldRes, newRes,
          FragmentHTML(data.oldHTML, data.oldDp, oldRes),
          FragmentHTML(data.newHTML, data.newDp, newRes))

\* lines 397-435, the offset pair being adjusted
Region(i, offset) ==
  /\ offsets' = [offsets EXCEPT ![i] = offset]
  /\ Matched(i, offset,
             FindMatchingNodes(data.oldHTML, offset[1], Len(data.oldWt)).res,
             FindMatchingNodes(data.newHTML, offset[2], Len(data.newWt)).res)

\* lines 381-436: one iteration of the loop over the offset pairs
CheckRegion ==
  /\ cpc = "regions"
  /\ ci <= Len(offsets)
  /\ Region(ci, AdjustOffset(data.newWt, offsets[ci]))
  /\ ci' = ci + 1
  /\ UNCHANGED <<data, givenOffsets, cpc>>
  /\ UNCHANGED notCheckVars

\* line 437
CheckReturn ==
  /\ cpc = "regions"
  /\ ci > Len(offsets)
  /\ cpc' = "returned"
  /\ UNCHANGED <<data, offsets, givenOffsets, results, ci, htmlDiffCalls, regionLog>>
  /\ UNCHANGED notCheckVars

CheckNext == CheckStart \/ CheckRegion \/ CheckReturn

\* The wikitext before and after the round trip.
WtPairs ==
  { << <<"a", "b">>,                 <<"a", "c">> >>,
    << <<"a", " ", "b">>,            <<"a", " ", " ", "b">> >>,
    << <<"<", "B", ">", "a">>,       <<"<", "b", ">", "a">> >>,
    << <<"a", "b">>,                 <<"a", "b", "<", "/", "b", ">">> >>,
    << <<"a">>,                      <<"<", "/", "b", ">", "a">> >>,
    << <<"a", "\n", "b">>,           <<"a", "\n", "c", "\n", "b">> >>,
    << <<"\"", "a", "\"">>,          <<"a">> >>,
    << <<"c", "b", " ">>,            <<"d", "b", " ", " ">> >>,
    << <<"a", "b", "c">>,            <<"a", "b", "c">> >> }

\* The offset pairs a diff of o against n can give, at most k of them, from the
\* offsets io and jn on: text outside the pairs is the same on both sides, the
\* text of a pair differs, and text stands between two pairs.
RECURSIVE OffsetLists(_, _, _, _, _, _)
OffsetLists(o, n, io, jn, k, first) ==
  LET \* <<so, eo, en>>: the next pair is old [so, eo) and new [jn + so - io, en)
      nextPairs ==
        { t \in (io..Len(o)) \X (io..Len(o)) \X (jn..Len(n)) :
            LET sn == jn + (t[1] - io)
            IN  /\ first \/ t[1] > io
                /\ sn <= Len(n)
                /\ SubSeq(o, io + 1, t[1]) = SubSeq(n, jn + 1, sn)
                /\ t[1] <= t[2]
                /\ sn <= t[3]
                /\ SubSeq(o, t[1] + 1, t[2]) # SubSeq(n, sn + 1, t[3]) }
  IN  (IF SubSeq(o, io + 1, Len(o)) = SubSeq(n, jn + 1, Len(n)) THEN { <<>> } ELSE {})
      \cup
      (IF k = 0 THEN {}
       ELSE UNION {
         { << << [start |-> t[1], end |-> t[2]],
                 [start |-> jn + (t[1] - io), end |-> t[3]] >> >> \o rest :
             rest \in OffsetLists(o, n, t[2], t[3], k - 1, FALSE) } : t \in nextPairs })

\* The documents checkIfSignificant is given: every element with both offsets.
CheckShapes ==
  { [par |-> <<0, 1, 1>>,       slot |-> <<"E", "E", "E">>],
    [par |-> <<0, 1, 1, 1>>,    slot |-> <<"E", "L", "E", "L">>],
    [par |-> <<0, 1, 2, 2>>,    slot |-> <<"E", "E", "L", "E">>],
    [par |-> <<0, 1, 2, 1>>,    slot |-> <<"E", "T", "L", "L">>] }

CheckDocs == { d \in DocsOf(CheckShapes, {"full"}) : AllSpansKnown(d) }

\* no call of findMatchingNodes of its own is under way
MatchIdle ==
  /\ doc = <<>>
  /\ targetRange = <<>>
  /\ mpc = "idle"
  /\ mres = NullRes
  /\ mlog = <<>>

CheckInit ==
  /\ \E wp \in WtPairs, od \in CheckDocs, nd \in CheckDocs, fo \in BOOLEAN, fn \in BOOLEAN :
       /\ od.srcLen = Len(wp[1])
       /\ nd.srcLen = Len(wp[2])
       /\ data = [ oldWt |-> wp[1], newWt |-> wp[2],
                   oldHTML |-> od, newHTML |-> nd,
                   oldDp |-> [fostered |-> fo], newDp |-> [fostered |-> fn] ]
  /\ offsets \in OffsetLists(data.oldWt, data.newWt, 0, 0, MaxOffsets, TRUE)
  /\ givenOffsets = offsets
  /\ results = <<>>
  /\ ci = 0
  /\ cpc = "start"
  /\ htmlDiffCalls = 0
  /\ regionLog = <<>>
  /\ MatchIdle
  /\ FetchIdle
  /\ OthersIdle

SpecCheck == CheckInit /\ [][CheckNext]_vars

CheckReturned == cpc = "returned"

\* a call of checkIfSignificant is under way or has returned
CheckCalled == cpc # "idle"

\* the serialization of the full old and of the full new document
OldOuter == SerializeNode(data.oldHTML, data.oldDp, 1)
NewOuter == SerializeNode(data.newHTML, data.newDp, 1)

\* the normalized HTML of the full old document equals that of the full new one
NormalizedEqual == NormalizeOut(OldOuter) = NormalizeOut(NewOuter)

\* every offset pair looked at so far is classified skip, every offset pair has
\* been looked at once the call has returned, and Diff.htmlDiff was not called
AllSkipNoHtmlDiff ==
  /\ \A k \in 1..Len(results) : results[k].type = "skip"
  /\ CheckReturned => Len(results) = Len(givenOffsets)
  /\ htmlDiffCalls = 0

\* C7 as stated: whenever the normalized HTML of the full old document equals
\* that of the full new document, every offset pair is classified skip and
\* Diff.htmlDiff is never invoked.
C7_FastPathAnyDocument ==
  (CheckCalled /\ NormalizedEqual) => AllSkipNoHtmlDiff

\* C7 (amended): the same when, in addition, neither document is marked as
\* containing fostered content.
C7_FastPath ==
  (/\ CheckCalled
   /\ NormalizedEqual
   /\ ~HasFostered(OldOuter)
   /\ ~HasFostered(NewOuter)) => AllSkipNoHtmlDiff

\* the call has returned two skip results for two documents that are not
\* fostered and that differ, but not after normalization
C7_Witness ==
  /\ CheckReturned
  /\ NormalizedEqual
  /\ OldOuter # NewOuter
  /\ ~HasFostered(OldOuter)
  /\ ~HasFostered(NewOuter)
  /\ Len(results) = 2
  /\ \A k \in 1..Len(results) : results[k].type = "skip"

\* C8: when the old or the new document is marked as containing fostered
\* content, the call does not return before the per-region comparison has run
\* for every offset pair.
C8_FosteredBypass ==
  (/\ CheckReturned
   /\ HasFostered(OldOuter) \/ HasFostered(NewOuter)) => Len(regionLog) = Len(givenOffsets)

\* the wikitext of offset pair k as the result reports it
OldExcerpt(k) == Substring(data.oldWt, offsets[k][1].start, offsets[k][1].end)
NewExcerpt(k) == Substring(data.newWt, offsets[k][2].start, offsets[k][2].end)

\* C9: on the per-region path the result of a region is fail if and only if
\* the HTML diff of the region is not empty and the normalized wikitext
\* excerpts of its old and new range differ; otherwise it is skip and has no
\* htmlDiff.
C9_TwoStagePromotion ==
  \A k \in 1..Len(regionLog) :
    LET r == results[k]
        semantic ==
          /\ regionLog[k].origHTML # regionLog[k].newHTML
          /\ NormalizeWikitext(OldExcerpt(r.offset)) # NormalizeWikitext(NewExcerpt(r.offset))
    IN  /\ r.type = "fail" <=> semantic
        /\ r.type # "fail" => r.type = "skip" /\ ~r.hasHtmlDiff

\* the call has returned one region as fail and one as skip whose HTML differs
\* and whose excerpts differ, but not after normalization
C9_Witness ==
  /\ CheckReturned
  /\ \E j, k \in 1..Len(regionLog) :
       /\ results[j].type = "fail"
       /\ results[j].hasHtmlDiff
       /\ results[k].type = "skip"
       /\ regionLog[k].origHTML # regionLog[k].newHTML
       /\ OldExcerpt(k) # NewExcerpt(k)

\* C10: when the call has returned there is one result per offset pair, and
\* result k carries offset pair k, on either path.
C10_OneResultPerPair ==
  CheckReturned =>
    /\ Len(results) = Len(givenOffsets)
    /\ \A k \in 1..Len(results) : results[k].offset = k

\* the per-region path has returned the results of two offset pairs
C10_Witness ==
  /\ CheckReturned
  /\ Len(givenOffsets) = 2
  /\ Len(regionLog) = 2
  /\ Len(results) = 2

\* the call went past the quick test into the loop of lines 381-436
OnRegionPath ==
  \/ cpc = "regions"
  \/ cpc = "returned" /\ ~QuickTest(OldOuter, NewOuter)

\* C11: every region the loop has been through has a result that is skip or
\* fail and a comparison of its two fragments, the fragment of a side for which
\* findMatchingNodes returned null being the empty one.
C11_NeverFails ==
  OnRegionPath =>
    /\ Len(results) = ci - 1
    /\ Len(regionLog) = ci - 1
    /\ htmlDiffCalls = ci - 1
    /\ CheckReturned => ci - 1 = Len(givenOffsets)
    /\ \A k \in 1..Len(regionLog) :
         /\ regionLog[k].oldRes.null => regionLog[k].origHTML = <<>>
         /\ regionLog[k].newRes.null => regionLog[k].newHTML = <<>>
         /\ regionLog[k].diff = HtmlDiff(regionLog[k].origHTML, regionLog[k].newHTML)
         /\ results[k].type \in {"skip", "fail"}

\* the call has returned and, for one region, findMatchingNodes had returned
\* null for the old range and nodes for the new range
C11_Witness ==
  /\ CheckReturned
  /\ \E k \in 1..Len(regionLog) :
       /\ regionLog[k].oldRes.null
       /\ ~regionLog[k].newRes.null
       /\ regionLog[k].newHTML # <<>>
       /\ results[k].type = "fail"

(***************************************************************************)
(* fetch and roundTripDiff (lines 500-644).  A wikitext is a short string; *)
(* a parsed document is named by the wikitext it is the parse of.          *)
(***************************************************************************)
\* longest wikitext of a page
MaxWt == 1

\* the comment fetch appends to the HTML before the selser serialization, as it
\* stands in the serialized wikitext (line 597)
SelserMarker == "<!--rtSelserEditTestComment-->"

\* every string of at most n of the characters cs
RECURSIVE StringsUpTo(_, _)
StringsUpTo(cs, n) ==
  IF n = 0 THEN { <<>> }
  ELSE StringsUpTo(cs, n - 1)
       \cup { Append(w, c) : w \in { v \in StringsUpTo(cs, n - 1) : Len(v) = n - 1 }, c \in cs }

\* the wikitexts a page or a serialization may hold
Wts == StringsUpTo({"a", "\n"}, MaxWt)

\* what the selser serialization may answer: a wikitext, with or without the
\* serialized marker comment and a newline after it
SelserAnswers ==
  Wts \cup { w \o <<SelserMarker>> : w \in Wts }
      \cup { w \o <<SelserMarker, "\n">> : w \in Wts }

\* line 625: out.replace(/<!--rtSelserEditTestComment-->\n*$/, '')
StripMarker(out) ==
  LET i == CHOOSE k \in 0..Len(out) :
             /\ \A j \in (k + 1)..Len(out) : out[j] = "\n"
             /\ k > 0 => out[k] # "\n"
  IN  IF i > 0 /\ out[i] = SelserMarker THEN SubSeq(out, 1, i - 1) ELSE out

\* lines 629-630: wt.replace(/\n(?=\n)/g, '\n ')
RECURSIVE SpaceEmptyLines(_, _)
SpaceEmptyLines(wt, i) ==
  IF i > Len(wt) THEN <<>>
  ELSE IF wt[i] = "\n" /\ At(wt, i + 1) = "\n"
  THEN <<"\n", " ">> \o SpaceEmptyLines(wt, i + 1)
  ELSE <<wt[i]>> \o SpaceEmptyLines(wt, i + 1)

\* Diff.convertDiffToOffsetPairs(Diff.diffLines(newWt, oldWt)).length: no
\* offset pair for equal texts, at least one otherwise
OffsetCounts(oldWt, newWt) ==
  IF oldWt = newWt THEN {0}
  ELSE { Len(l) : l \in OffsetLists(oldWt, newWt, 0, 0, MaxOffsets, TRUE) } \ {0}

\* the results checkIfSignificant may return for n offset pairs (one result
\* per pair, each skip or fail) as new objects of phase ph
NewResults(n, ph) ==
  { [k \in 1..n |-> [type |-> ty[k], selser |-> Undefined, phase |-> ph]] :
      ty \in [1..n -> {"skip", "fail"}] }

\* the names of the objects appended to a heap of h objects
NewNames(h, n) == [k \in 1..n |-> h + k]

Event(ev, what) == [ev |-> ev, what |-> what]

\* lines 500-503 returning early for a pair of empty texts only
NothingToDiffEmpty(d) == d.oldWt = <<>> /\ d.newWt = <<>>

\* lines 500-503: has roundTripDiff nothing to classify
NothingToDiff(d) == 0 \in OffsetCounts(d.oldWt, d.newWt)

\* a request (getParserEnv, setPageSrcInfo or a parsoidPost) is issued
\* the requests that parsoidPost makes (the others are getParserEnv and
\* setPageSrcInfo)
PostRequests == {"parse", "serialize", "plainParseNew", "selser", "selserParseNew"}

\* line 465: the first HTTP request of a parsoidPost
FirstAttempt(req) == IF req \in PostRequests THEN 1 ELSE 0

Issue(req) ==
  /\ inflight' = inflight \cup {req}
  /\ ftrace' = Append(ftrace, Event("issue", req))
  /\ attempts' = FirstAttempt(req)

\* the request old has been answered and the then-callback issues the requests
\* reqs, in this order
AnswerThenIssue(old, reqs) ==
  /\ inflight' = (inflight \ {old}) \cup { reqs[k] : k \in 1..Len(reqs) }
  /\ ftrace' = ftrace \o <<Event("answer", old)>>
                      \o [k \in 1..Len(reqs) |-> Event("issue", reqs[k])]
  /\ attempts' = FirstAttempt(reqs[1])

\* lines 518-555: the synchronous part of fetch.  url.parse(undefined) throws
\* for a prefix that is not in the interwiki map (line 538).
FetchStart ==
  /\ fpc = "start"
  /\ CASE fopt = "unknownPrefix" -> fpc' = "thrown" /\ ferr' = ferr
       [] fopt = "none"          -> fpc' = "rejected" /\ ferr' = "No domain or prefix provided."
       [] OTHER                  -> fpc' = "resolved" /\ ferr' = ferr
  /\ UNCHANGED <<fopt, inflight, ftrace, fdata, fres, heap, formatterCalls, attempts>>
  /\ UNCHANGED notFetchVars

\* lines 555-559: MWParserEnvironment.getParserEnv
GetParserEnv ==
  /\ fpc = "resolved"
  /\ Issue("env")
  /\ fpc' = "env"
  /\ UNCHANGED <<fopt, fdata, fres, heap, ferr, formatterCalls>>
  /\ UNCHANGED notFetchVars

\* lines 560-565: TemplateRequest.setPageSrcInfo
SetPageSrcInfo ==
  /\ fpc = "env"
  /\ AnswerThenIssue("env", <<"src">>)
  /\ fpc' = "src"
  /\ UNCHANGED <<fopt, fdata, fres, heap, ferr, formatterCalls>>
  /\ UNCHANGED notFetchVars

\* lines 566-574: the page source has arrived; request its parse
ParseOld ==
  /\ fpc = "src"
  /\ \E w \in Wts : fdata' = [fdata EXCEPT !.oldWt = w, !.src = w]
  /\ AnswerThenIssue("src", <<"parse">>)
  /\ fpc' = "parse"
  /\ UNCHANGED <<fopt, fres, heap, ferr, formatterCalls>>
  /\ UNCHANGED notFetchVars

\* the callback of lines 575-588 asking for both serializations at once
SerializeBoth == <<"serialize", "selser">>

\* the requests the callback of lines 575-588 issues
SerializeRequests == <<"serialize">>

\* lines 575-588: the parse has arrived; request the plain serialization
SerializePlain ==
  /\ fpc = "parse"
  /\ fdata' = [fdata EXCEPT !.oldHTML = [of |-> fdata.oldWt]]
  /\ AnswerThenIssue("parse", SerializeRequests)
  /\ fpc' = "serialize"
  /\ UNCHANGED <<fopt, fres, heap, ferr, formatterCalls>>
  /\ UNCHANGED notFetchVars

\* lines 500-510: roundTripDiff(env, parsoidOptions, d), called by the callback
\* that the answer to the request old has started; ph is "plain" or "selser".
\* Without an offset pair it returns [], otherwise it requests the parse of
\* d.newWt.
RoundTripDiff(d, old, ph, diffed, parseNew) ==
  IF NothingToDiff(d)
  THEN /\ inflight' = inflight \ {old}
       /\ ftrace' = ftrace \o <<Event("answer", old), Event("diffEqual", ph)>>
       /\ fres' = <<>>
       /\ fpc' = diffed
       /\ attempts' = 0
  ELSE /\ inflight' = (inflight \ {old}) \cup {parseNew}
       /\ ftrace' = ftrace \o <<Event("answer", old), Event("diffDiffers", ph),
                                Event("issue", parseNew)>>
       /\ fres' = fres
       /\ fpc' = parseNew
       /\ attempts' = FirstAttempt(parseNew)

\* lines 510-513: the parse of d.newWt has arrived; checkIfSignificant returns
\* one new result object per offset pair
Classified(parseNew, ph, phase, diffed) ==
  /\ fdata' = [fdata EXCEPT !.newHTML = [of |-> fdata.newWt]]
  /\ inflight' = inflight \ {parseNew}
  /\ ftrace' = ftrace \o <<Event("answer", parseNew), Event("check", ph)>>
  /\ attempts' = 0
  /\ \E n \in OffsetCounts(fdata.oldWt, fdata.newWt) :
       \E rs \in NewResults(n, phase) :
         /\ heap' = heap \o rs
         /\ fres' = NewNames(Len(heap), n)
  /\ fpc' = diffed
  /\ UNCHANGED <<fopt, ferr, formatterCalls>>
  /\ UNCHANGED notFetchVars

\* lines 589-591: the plain serialization has arrived
DiffPlain ==
  /\ fpc = "serialize"
  /\ \E w \in Wts :
       /\ fdata' = [fdata EXCEPT !.newWt = w, !.plain = w]
       /\ RoundTripDiff([fdata EXCEPT !.newWt = w, !.plain = w], "serialize", "plain",
                        "plainDiffed", "plainParseNew")
  /\ UNCHANGED <<fopt, heap, ferr, formatterCalls>>
  /\ UNCHANGED notFetchVars

ClassifyPlain ==
  /\ fpc = "plainParseNew"
  /\ Classified("plainParseNew", "plain", 1, "plainDiffed")

\* lines 592-609: the plain results are kept and the selser serialization of
\* the old HTML with the marker comment is requested
SerializeSelser ==
  /\ fpc = "plainDiffed"
  /\ fdata' = [fdata EXCEPT !.diffs = fres]
  /\ Issue("selser")
  /\ fpc' = "selser"
  /\ UNCHANGED <<fopt, fres, heap, ferr, formatterCalls>>
  /\ UNCHANGED notFetchVars

\* lines 622-630: data after the selser serialization out has arrived
SelserData(d, out) ==
  [d EXCEPT !.oldWt = SpaceEmptyLines(d.newWt, 1),
            !.newWt = SpaceEmptyLines(StripMarker(out), 1),
            !.out = out]

\* lines 610-631
DiffSelser ==
  /\ fpc = "selser"
  /\ \E out \in SelserAnswers :
       /\ fdata' = SelserData(fdata, out)
       /\ RoundTripDiff(SelserData(fdata, out), "selser", "selser",
                        "selserDiffed", "selserParseNew")
  /\ UNCHANGED <<fopt, heap, ferr, formatterCalls>>
  /\ UNCHANGED notFetchVars

ClassifySelser ==
  /\ fpc = "selserParseNew"
  /\ Classified("selserParseNew", "selser", 2, "selserDiffed")

\* lines 633-635: selserDiffs.forEach(diff => diff.selser = true) on the heap h
\* with every object of the first diff tagged as well
TagAll(h, diffs, selserDiffs) ==
  [o \in 1..Len(h) |->
     IF \E k \in 1..Len(diffs) : diffs[k] = o
        \/ \E j \in 1..Len(selserDiffs) : selserDiffs[j] = o
     THEN [h[o] EXCEPT !.selser = "true"] ELSE h[o]]

\* lines 633-635: selserDiffs.forEach(diff => diff.selser = true) on the heap h
TagSelser(h, diffs, selserDiffs) ==
  [o \in 1..Len(h) |->
     IF \E k \in 1..Len(selserDiffs) : selserDiffs[k] = o
     THEN [h[o] EXCEPT !.selser = "true"] ELSE h[o]]

\* lines 632-639: the last callback of the chain
MergeDiffs ==
  /\ fpc = "selserDiffed"
  /\ heap' = TagSelser(heap, fdata.diffs, fres)
  /\ fdata' = [fdata EXCEPT !.diffs = IF Len(fres) # 0 THEN fdata.diffs \o fres
                                      ELSE fdata.diffs]
  /\ ftrace' = Append(ftrace, Event("merge", "selser"))
  /\ fpc' = "fulfilled"
  /\ UNCHANGED <<fopt, inflight, fres, ferr, formatterCalls, attempts>>
  /\ UNCHANGED notFetchVars

\* line 465: the number handed to Util.retryingHTTPRequest
Retries == 10

\* Util.retryingHTTPRequest: may the request be made once more after n
\* requests that ended in an error
RetryAllowed(n) == n < Retries

\* the status codes a response may carry
Statuses == {200, 404, 500}

\* line 466: res.statusCode !== 200 makes an error of the response
StatusOK(status) == status = 200

\* the chain going on as if the request had been answered
Fulfilled == "fulfilled"

\* lines 469 and 489: reject(err)
Rejected == "rejected"

\* the request req is over without a body: the promise is rejected with err
Reject(req, err) ==
  /\ inflight' = inflight \ {req}
  /\ ftrace' = Append(ftrace, Event("fail", req))
  /\ ferr' = err
  /\ fpc' = Rejected
  /\ UNCHANGED <<fopt, fdata, fres, heap, formatterCalls, attempts>>
  /\ UNCHANGED notFetchVars

\* Util.retryingHTTPRequest: a request of parsoidPost ended in an error and is
\* made again
RequestRetried ==
  /\ \E req \in inflight \cap PostRequests : RetryAllowed(attempts)
  /\ attempts' = attempts + 1
  /\ UNCHANGED <<fopt, fpc, inflight, ftrace, fdata, fres, heap, ferr, formatterCalls>>
  /\ UNCHANGED notFetchVars

\* a request in flight fails for good: retryingHTTPRequest gives up after the
\* last request ended in an error (lines 465-469), or the environment or the
\* page source cannot be had.  The chain of lines 555-639 has no rejection
\* handler before line 642.
RequestFails ==
  /\ inflight # {}
  /\ \E req \in inflight :
       /\ req \in PostRequests => ~RetryAllowed(attempts)
       /\ Reject(req, "request failed")

\* lines 466-469: a response arrives whose status is not 200
ResponseRejected ==
  /\ \E req \in inflight \cap PostRequests :
       \E status \in Statuses :
         /\ ~StatusOK(status)
         /\ Reject(req, "Got status code: " \o ToString(status))

\* lines 34-50: the differences plainFormat counts, as <<semantic, syntactic>>
RECURSIVE CountDiffs(_, _)
CountDiffs(rs, i) ==
  IF i > Len(rs) THEN <<0, 0>>
  ELSE LET rest == CountDiffs(rs, i + 1)
       IN  IF rs[i].type = "fail" THEN <<rest[1] + 1, rest[2]>>
           ELSE <<rest[1], rest[2] + 1>>

\* lines 36-49: the heading plainFormat writes for one result
PlainHeading(result) ==
  (IF result.type = "fail" THEN "Semantic difference" ELSE "Syntactic difference")
  \o (IF result.selser = "true" THEN " (selser)" ELSE "") \o ":"

\* lines 19-63: plainFormat(err, prefix, title, results, profile), as the lines
\* of its output without the dividers and the texts of the differences
PlainFormat(err, rs) ==
  IF err # Undefined THEN <<"Parser failure!", err>>
  ELSE [k \in 1..Len(rs) |-> PlainHeading(rs[k])]
       \o <<"SUMMARY:",
            "Semantic differences : " \o ToString(CountDiffs(rs, 1)[1]),
            "Syntactic differences: " \o ToString(CountDiffs(rs, 1)[2]),
            "ALL differences      : "
              \o ToString(CountDiffs(rs, 1)[1] + CountDiffs(rs, 1)[2])>>

\* the result objects an array of names stands for
Deref(h, names) == [k \in 1..Len(names) |-> h[names[k]]]

\* lines 546-548 and 640-643: closeFormatter(null, data.diffs) when the chain
\* is fulfilled, closeFormatter(err) when it is rejected
CloseFormatter ==
  /\ fpc \in {"fulfilled", "rejected"}
  /\ formatterCalls' = Append(formatterCalls,
       IF fpc = "fulfilled"
       THEN [err |-> Undefined, hasResults |-> TRUE,
             results |-> Deref(heap, fdata.diffs),
             output |-> PlainFormat(Undefined, Deref(heap, fdata.diffs))]
       ELSE [err |-> ferr, hasResults |-> FALSE, results |-> <<>>,
             output |-> PlainFormat(ferr, <<>>)])
  /\ ftrace' = Append(ftrace, Event("format", fpc))
  /\ fpc' = "done"
  /\ UNCHANGED <<fopt, inflight, fdata, fres, heap, ferr, attempts>>
  /\ UNCHANGED notFetchVars

FetchNext ==
  \/ FetchStart
  \/ GetParserEnv
  \/ SetPageSrcInfo
  \/ ParseOld
  \/ SerializePlain
  \/ DiffPlain
  \/ ClassifyPlain
  \/ SerializeSelser
  \/ DiffSelser
  \/ ClassifySelser
  \/ MergeDiffs
  \/ RequestRetried
  \/ RequestFails
  \/ ResponseRejected
  \/ CloseFormatter

\* fetch(title, options, formatter) is called: options name a prefix of the
\* interwiki map, a prefix that is not in it, a domain, or neither.  Next to
\* the fields of data, fdata keeps env.page.src (src) and the bodies of the
\* two serializations as they arrived (plain, out).
FetchOptions == {"prefix", "unknownPrefix", "domain", "none"}

FetchInit ==
  /\ fopt \in FetchOptions
  /\ fpc = "start"
  /\ inflight = {}
  /\ ftrace = <<>>
  /\ fdata = [oldWt |-> Undefined, newWt |-> Undefined, oldHTML |-> Undefined,
              newHTML |-> Undefined, diffs |-> <<>>,
              src |-> Undefined, plain |-> Undefined, out |-> Undefined]
  /\ fres = <<>>
  /\ heap = <<>>
  /\ ferr = Undefined
  /\ formatterCalls = <<>>
  /\ attempts = 0
  /\ MatchIdle
  /\ CheckIdle
  /\ OthersIdle

SpecFetch == FetchInit /\ [][FetchNext]_vars

\* the stage of fetch an event of the trace belongs to: 1 fetch source,
\* 2 parse old wikitext, 3 serialize in plain mode, 4 first diff/classify,
\* 5 serialize with the marker comment, 6 second diff/classify, 7 format
StageOf(e) ==
  CASE e.ev \in {"issue", "answer", "fail"} ->
         (CASE e.what \in {"env", "src"} -> 1
            [] e.what = "parse" -> 2
            [] e.what = "serialize" -> 3
            [] e.what = "plainParseNew" -> 4
            [] e.what = "selser" -> 5
            [] e.what = "selserParseNew" -> 6)
    [] e.ev \in {"diffEqual", "diffDiffers", "check"} ->
         (IF e.what = "plain" THEN 4 ELSE 6)
    [] e.ev = "merge" -> 6
    [] e.ev = "format" -> 7

\* the number of events among the first n of the trace whose kind is in evs
EventsBefore(n, evs) ==
  Cardinality({ i \in 1..n : ftrace[i].ev \in evs })

\* C12: the stages of fetch run in the order fetch source, parse old,
\* serialize plain, first diff/classify, serialize selser, second
\* diff/classify, format; a request is issued only when every earlier request
\* has been answered, and at most one request is in flight at any time.
C12_StagesInOrder ==
  /\ Cardinality(inflight) <= 1
  /\ \A i \in 1..Len(ftrace) : \A j \in i..Len(ftrace) :
       StageOf(ftrace[i]) <= StageOf(ftrace[j])
  /\ \A j \in 1..Len(ftrace) :
       ftrace[j].ev = "issue" =>
         EventsBefore(j - 1, {"issue"}) = EventsBefore(j - 1, {"answer", "fail"})

\* a fetch that went through every stage, both diffs with a classification
C12_Witness ==
  /\ fpc = "done"
  /\ { StageOf(ftrace[i]) : i \in 1..Len(ftrace) } = 1..7
  /\ \E i \in 1..Len(ftrace) : ftrace[i] = Event("check", "plain")
  /\ \E i \in 1..Len(ftrace) : ftrace[i] = Event("check", "selser")

\* fetch has run to its end: the formatter has returned, or fetch has thrown
FetchEnded == fpc \in {"done", "thrown"}

\* has a stage of this run failed
StageFailed == \E i \in 1..Len(ftrace) : ftrace[i].ev = "fail"

\* C13: once a stage has failed no later stage is started and the formatter
\* is called exactly once, with the error and without a result list; every
\* run of fetch, failing or not, calls the formatter exactly once.
C13_FormatterOnce ==
  /\ Len(formatterCalls) <= 1
  /\ FetchEnded => Len(formatterCalls) = 1
  /\ \A i \in 1..Len(ftrace) :
       ftrace[i].ev = "fail" =>
         \A j \in (i + 1)..Len(ftrace) : ftrace[j].ev = "format"
  /\ StageFailed /\ FetchEnded =>
       \A k \in 1..Len(formatterCalls) :
         /\ formatterCalls[k].err # Undefined
         /\ ~formatterCalls[k].hasResults

\* C14: in the result list a successful fetch hands to the formatter, every
\* result of the second (selser) diff has selser = true, no result of the
\* first diff has it, and the results of the first diff come first.
C14_SelserTagged ==
  \A c \in 1..Len(formatterCalls) :
    formatterCalls[c].hasResults =>
      LET rs == formatterCalls[c].results
      IN  /\ \A k \in 1..Len(rs) : (rs[k].phase = 2) <=> (rs[k].selser = "true")
          /\ \A i \in 1..Len(rs) : \A j \in (i + 1)..Len(rs) :
               ~(rs[i].phase = 2 /\ rs[j].phase = 1)

\* a successful fetch with results of both diffs
C14_Witness ==
  /\ fpc = "done"
  /\ \E c \in 1..Len(formatterCalls) :
       /\ formatterCalls[c].hasResults
       /\ \E k \in 1..Len(formatterCalls[c].results) :
            formatterCalls[c].results[k].phase = 1
       /\ \E k \in 1..Len(formatterCalls[c].results) :
            formatterCalls[c].results[k].phase = 2

\* roundTripDiff has returned for the first or the second diff
DiffReturned == fpc \in {"plainDiffed", "selserDiffed"}

\* the request and the call roundTripDiff makes when there are offset pairs
ParseNewEvents ==
  IF fpc = "plainDiffed"
  THEN {Event("issue", "plainParseNew"), Event("check", "plain")}
  ELSE {Event("issue", "selserParseNew"), Event("check", "selser")}

\* roundTripDiff given equal texts: no offset pair, an empty result list,
\* no parse of the new wikitext requested, checkIfSignificant not called
EqualTextsNoWork ==
  DiffReturned /\ fdata.oldWt = fdata.newWt =>
    /\ OffsetCounts(fdata.oldWt, fdata.newWt) = {0}
    /\ fres = <<>>
    /\ \A i \in 1..Len(ftrace) : ftrace[i] \notin ParseNewEvents

\* the report of plainFormat shows no semantic and no syntactic difference
ZeroReport(output) ==
  /\ \E i \in 1..Len(output) : output[i] = "Semantic differences : 0"
  /\ \E i \in 1..Len(output) : output[i] = "Syntactic differences: 0"

\* C15 as stated: when the plain serialization equals the source wikitext,
\* roundTripDiff does no work and the report shows zero semantic and zero
\* syntactic differences.
C15_UnchangedPlain ==
  /\ EqualTextsNoWork
  /\ \A c \in 1..Len(formatterCalls) :
       formatterCalls[c].hasResults /\ fdata.plain = fdata.src =>
         ZeroReport(formatterCalls[c].output)

\* C15: when the plain serialization equals the source wikitext and the
\* selser serialization, less the marker comment, equals it too, each call of
\* roundTripDiff finds no offset pair and returns an empty list without
\* requesting a parse or calling checkIfSignificant, and the report shows
\* zero semantic and zero syntactic differences.
C15_Unchanged ==
  /\ EqualTextsNoWork
  /\ \A c \in 1..Len(formatterCalls) :
       /\ formatterCalls[c].hasResults
       /\ fdata.plain = fdata.src
       /\ StripMarker(fdata.out) = fdata.plain
       => ZeroReport(formatterCalls[c].output)

\* a page that is not empty comes back unchanged from both serializations,
\* the second with the marker comment
C15_Witness ==
  /\ fpc = "done"
  /\ Len(formatterCalls) = 1
  /\ formatterCalls[1].hasResults
  /\ fdata.src # <<>>
  /\ fdata.plain = fdata.src
  /\ fdata.out = fdata.src \o <<SelserMarker>>
  /\ ZeroReport(formatterCalls[1].output)

\* C16: checkIfSignificant treats its inputs as immutable; when it has
\* returned, every offset pair it was given has the old and new start and end
\* it had before the call.
C16_InputsImmutable == CheckReturned => offsets = givenOffsets

(***************************************************************************)
(* findMatchingNodes called several times on one document.                 *)
(***************************************************************************)
MaxCalls == 2

\* a call that goes on with currentOffset, wasWaiting and waitingForEndMatch as
\* the call before left them
CarriedState(left) ==
  [co |-> left.co, ww |-> left.ww, wf |-> left.wf, visited |-> <<>>, log |-> <<>>,
   its |-> <<>>]

\* lines 159-161: every call declares currentOffset, wasWaiting and
\* waitingForEndMatch anew, whatever the call before left in its own
EntryState(left) ==
  [co |-> Null, ww |-> FALSE, wf |-> FALSE, visited |-> <<>>, log |-> <<>>,
   its |-> <<>>]

\* the variables of lines 159-161 in the state st of a walk
ClosureOf(st) == [co |-> st.co, ww |-> st.ww, wf |-> st.wf]

\* lines 158-302: the call with the target tr has been made from the state
\* entry and has come back with r
Called(tr, entry, r) ==
  /\ targetRange' = tr
  /\ mres' = r.res
  /\ mlog' = r.st.log
  /\ mentry' = ClosureOf(entry)
  /\ mprev' = mstate
  /\ mstate' = ClosureOf(r.st)
  /\ mcalls' = mcalls + 1

\* findMatchingNodes(root, targetRange, sourceLen) is called once more
Call ==
  /\ mpc = "calls"
  /\ mcalls < MaxCalls
  /\ \E tr \in { r \in Ranges(doc.srcLen) : r.start <= r.end } :
       Called(tr, EntryState(mstate),
              WalkDOM(doc, tr, doc.srcLen, 1, EntryState(mstate)))
  /\ UNCHANGED <<doc, mpc>>
  /\ UNCHANGED notCallVars

CallNext == Call

CallInit ==
  /\ doc \in CheckDocs
  /\ targetRange = [start |-> 0, end |-> 0]
  /\ mpc = "calls"
  /\ mres = NullRes
  /\ mlog = <<>>
  /\ CallIdle
  /\ CheckIdle
  /\ FetchIdle
  /\ NormIdle
  /\ XmlIdle
  /\ ServiceIdle

SpecCalls == CallInit /\ [][CallNext]_vars

GivenNewExcerpt(k) ==
  Substring(data.newWt, givenOffsets[k][2].start, givenOffsets[k][2].end)

\* C18: in the per-region path the old span used for matching is the given
\* one with its start decremented by exactly one if and only if the given old
\* span is empty and the new text at the new span is an optional newline, one
\* closing tag and an optional newline; otherwise it is the given old span;
\* the new span used is always the given one.
C18_ImplicitCloseFudge ==
  \A k \in 1..Len(regionLog) :
    /\ regionLog[k].newSpan = givenOffsets[k][2]
    /\ regionLog[k].oldSpan.end = givenOffsets[k][1].end
    /\ IF /\ givenOffsets[k][1].start = givenOffsets[k][1].end
          /\ IsImplicitClose(GivenNewExcerpt(k))
       THEN regionLog[k].oldSpan.start = givenOffsets[k][1].start - 1
       ELSE regionLog[k].oldSpan.start = givenOffsets[k][1].start

\* a region with an empty old span after the start of the text, whose start
\* was moved back by one for the matching
C18_Witness ==
  /\ CheckReturned
  /\ \E k \in 1..Len(regionLog) :
       /\ givenOffsets[k][1].start = givenOffsets[k][1].end
       /\ regionLog[k].oldSpan.start = givenOffsets[k][1].start - 1
       /\ regionLog[k].oldSpan.start >= 0

(***************************************************************************)
(* normalizeWikitext applied to a string and then to its own output.       *)
(***************************************************************************)
MaxNorm == 3

\* the characters the rules of lines 304-332 react to, with a lower-case and
\* an upper-case letter
NormChars ==
  {" ", "\t", "\n", "\"", "<", ">", "/", "|", "!", "{", "a", "A", ";", "="}

NormInit ==
  /\ nstr \in StringsUpTo(NormChars, MaxNorm)
  /\ nouts = <<>>
  /\ MatchIdle
  /\ CheckIdle
  /\ FetchIdle
  /\ CallIdle
  /\ XmlIdle
  /\ ServiceIdle

\* normalizeWikitext(s)
NormalizeOnce ==
  /\ nouts = <<>>
  /\ nouts' = <<NormalizeWikitext(nstr)>>
  /\ UNCHANGED nstr
  /\ UNCHANGED notNormVars

\* normalizeWikitext(normalizeWikitext(s))
NormalizeAgain ==
  /\ Len(nouts) = 1
  /\ nouts' = Append(nouts, NormalizeWikitext(nouts[1]))
  /\ UNCHANGED nstr
  /\ UNCHANGED notNormVars

NormNext == NormalizeOnce \/ NormalizeAgain

SpecNorm == NormInit /\ [][NormNext]_vars

\* C19: the normalizer is idempotent: for every string s over the characters
\* its rules react to, normalizeWikitext(normalizeWikitext(s)) equals
\* normalizeWikitext(s).
C19_Idempotent == Len(nouts) = 2 => nouts[2] = nouts[1]

(***************************************************************************)
(* xmlFormat.  The output is the sequence of the tags written; the article *)
(* name is A, and the texts of the differences, the offsets in the test    *)
(* case names and the values of the profile are left out.                  *)
(***************************************************************************)
MaxResults == 3

\* lines 79-85: outputTestSuite(selser)
OpenSuite(selser) ==
  IF selser = "true"
  THEN "<testsuite name=\"Roundtrip article A (selser)\">"
  ELSE "<testsuite name=\"Roundtrip article A\">"

\* lines 103 and 105 with the current flag never seen to change
NeverChanged(currentSelser, selser) == FALSE

\* line 103: currentSelser !== result.selser
SelserChanged(currentSelser, selser) == currentSelser # selser

\* lines 104-106: the open test suite is closed and the next one opened
ReopenSuite(selser) == <<OpenSuite(selser)>>
SwitchSuite(selser) == <<"</testsuite>", OpenSuite(selser)>>

\* lines 109-130: one test case
TestCase(result) ==
  <<"<testcase name=\"A character\">">>
  \o (IF result.type = "fail"
      THEN <<"<failure type=\"significantHtmlDiff\">", "<diff class=\"wt\">",
             "</diff>", "<diff class=\"html\">", "</diff>", "</failure>">>
      ELSE <<"<skipped type=\"insignificantWikitextDiff\">", "</skipped>">>)
  \o <<"</testcase>">>

\* lines 98-131: the loop over the results from result i on
RECURSIVE XmlCases(_, _, _)
XmlCases(rs, i, currentSelser) ==
  IF i > Len(rs) THEN <<>>
  ELSE (IF SelserChanged(currentSelser, rs[i].selser)
        THEN SwitchSuite(rs[i].selser)
        ELSE <<>>)
       \o TestCase(rs[i])
       \o XmlCases(rs, i + 1,
                   IF SelserChanged(currentSelser, rs[i].selser)
                   THEN rs[i].selser ELSE currentSelser)

\* lines 136-152: the profiling data
PerfStats(profile) ==
  IF profile = Undefined THEN <<>>
  ELSE <<"<perfstats>", "<perfstat type=\"time:total\">", "</perfstat>",
         "</perfstats>">>

\* lines 75-156: xmlFormat(err, prefix, title, results, profile)
XmlFormat(err, rs, profile) ==
  <<"<testsuites>">>
  \o (IF err # Undefined
      THEN <<OpenSuite("false"), "<testcase name=\"entire article\">",
             "<error type=\"parserFailedToFinish\">", "</error>", "</testcase>">>
      ELSE IF Len(rs) = 0
      THEN <<OpenSuite("false")>>
      ELSE <<OpenSuite(rs[1].selser)>> \o XmlCases(rs, 1, rs[1].selser))
  \o <<"</testsuite>">>
  \o PerfStats(profile)
  \o <<"</testsuites>">>

\* the results a caller may pass: skip or fail, with selser unset or true
XmlResults == [type : {"skip", "fail"}, selser : {Undefined, "true"}]

RECURSIVE ListsUpTo(_, _)
ListsUpTo(S, n) ==
  IF n = 0 THEN { <<>> }
  ELSE ListsUpTo(S, n - 1)
       \cup { Append(l, x) : l \in { m \in ListsUpTo(S, n - 1) : Len(m) = n - 1 }, x \in S }

\* the formatter is called with an error and no results, or with results
XmlInit ==
  /\ \/ xerr = "Error" /\ xresults = <<>>
     \/ xerr = Undefined /\ xresults \in ListsUpTo(XmlResults, MaxResults)
  /\ xprofile \in {Undefined, "profile"}
  /\ xout = <<>>
  /\ xpc = "called"
  /\ MatchIdle
  /\ CheckIdle
  /\ FetchIdle
  /\ CallIdle
  /\ NormIdle
  /\ ServiceIdle

XmlReturn ==
  /\ xpc = "called"
  /\ xout' = XmlFormat(xerr, xresults, xprofile)
  /\ xpc' = "returned"
  /\ UNCHANGED <<xerr, xresults, xprofile>>
  /\ UNCHANGED notXmlVars

XmlNext == XmlReturn

SpecXml == XmlInit /\ [][XmlNext]_vars

\* xmlFormat has returned for a result list that is not empty
XmlListed == xpc = "returned" /\ xerr = Undefined /\ Len(xresults) > 0

IsOpenSuite(tag) == tag \in {OpenSuite("true"), OpenSuite("false")}

\* the positions of the output that open a testsuite
SuiteOpenings == { q \in 1..Len(xout) : IsOpenSuite(xout[q]) }

\* the position of the test case of result i
CasePosition(i) ==
  CHOOSE p \in 1..Len(xout) :
    /\ xout[p] = TestCase(xresults[i])[1]
    /\ Cardinality({ q \in 1..p : xout[q] = TestCase(xresults[i])[1] }) = i

\* the results up to result i whose selser flag is not that of the result before
FlagChanges(i) ==
  { k \in 2..i : xresults[k].selser # xresults[k - 1].selser }

\* the last position of a set of positions
Last(ps) == CHOOSE p \in ps : \A q \in ps : q <= p

\* C20: for a result list that is not empty xmlFormat opens one testsuite
\* before the first result and one more before each result whose selser flag
\* is not that of the result before it, and none elsewhere, so there are one
\* plus the number of flag changes of them; the testsuite a result is in has
\* the suffix ' (selser)' in its name exactly when the result's flag is true.
C20_SuitePerFlagChange ==
  XmlListed =>
    /\ Cardinality(SuiteOpenings) = 1 + Cardinality(FlagChanges(Len(xresults)))
    /\ \A i \in 1..Len(xresults) :
         LET before == { q \in SuiteOpenings : q < CasePosition(i) }
         IN  /\ Cardinality(before) = 1 + Cardinality(FlagChanges(i))
             /\ i > 1 => ((i \in FlagChanges(i))
                           <=> (CasePosition(i) - 1 \in SuiteOpenings))
             /\ (xout[Last(before)] = OpenSuite("true"))
                  <=> (xresults[i].selser = "true")

\* results whose flag changes twice
C20_Witness ==
  /\ XmlListed
  /\ Cardinality(FlagChanges(Len(xresults))) = 2
  /\ Cardinality(SuiteOpenings) = 3

\* the last event of the trace is a call of checkIfSignificant
Checking == Len(ftrace) > 0 /\ ftrace[Len(ftrace)].ev = "check"

\* a request of parsoidPost has failed
PostFailed ==
  \E i \in 1..Len(ftrace) : ftrace[i].ev = "fail" /\ ftrace[i].what \in PostRequests

C21_StatusWitness ==
  /\ fpc = "done"
  /\ ferr = "Got status code: 500"
  /\ Len(formatterCalls) = 1
  /\ formatterCalls[1].err = ferr

\* ---------------------------------------------------------------------------
\* The response helpers of the API server
\* ---------------------------------------------------------------------------

\* the round-trip test is idle
TestIdle ==
  /\ MatchIdle
  /\ CheckIdle
  /\ FetchIdle
  /\ CallIdle
  /\ NormIdle
  /\ XmlIdle

\* how many helper calls one request makes
MaxApiCalls == 3

\* JavaScript values are written as they are in the source: 0 and 12 are
\* numbers, '0' and '' are strings; these are the falsy ones
Falsy == {Undefined, "null", "false", "0", "''"}
TruthyArg(v) == v \notin Falsy

\* typeof v === 'number' for an argument that is a number when it is given
IsNumber(v) == v # Undefined

\* the bodies, status arguments and redirect codes the callers pass
Bodies == {"a", "<"}
StatusArgs == {Undefined, "0", "404"}
RedirectArgs == {Undefined, "301"}

\* Util.entityEncodeAll: every character becomes a numeric entity
EntityEncodeAll(body) ==
  CASE body = "a" -> "&#x61;"
    [] body = "<" -> "&#x3C;"
    [] OTHER -> body

\* one call made on res
ResOp(op, arg) == [op |-> op, arg |-> arg]

\* the calls on res that send the response head
Flushing == {"send", "render", "json", "redirect", "writeHead", "end"}

\* res.headersSent once the calls ops have been made on res
HeadersSentAfter(sent, ops) ==
  sent \/ \E i \in 1..Len(ops) : ops[i].op \in Flushing

\* the record of one helper call
ApiCall(fn, before, after) ==
  [fn |-> fn, sent |-> responseSent, headers |-> headersSent,
   from |-> Len(before), to |-> Len(after)]

\* the helper fn makes the calls ops on res
Respond(fn, ops) ==
  /\ resOps' = resOps \o ops
  /\ headersSent' = HeadersSentAfter(headersSent, ops)
  /\ apiLog' = Append(apiLog, ApiCall(fn, resOps, resOps \o ops))

\* env.responseSent after sendResponse, renderResponse and jsonResponse
LeaveUnsent == FALSE
MarkSent == TRUE

\* apiUtils.relativeRedirect of the env-based helpers
RelativeRedirect ==
  /\ Len(apiLog) < MaxApiCalls
  /\ \E httpStatus \in RedirectArgs :
       IF responseSent
       THEN Respond("relativeRedirect", <<>>)
       ELSE Respond("relativeRedirect",
                    << ResOp("writeHead", IF TruthyArg(httpStatus) THEN httpStatus ELSE "302"),
                       ResOp("end", "") >>)
  /\ UNCHANGED responseSent
  /\ UNCHANGED notApiVars

\* apiUtils.setHeader(res, env, name, value)
SetHeader ==
  /\ Len(apiLog) < MaxApiCalls
  /\ IF responseSent
     THEN Respond("setHeader", <<>>)
     ELSE Respond("setHeader", << ResOp("setHeader", "name") >>)
  /\ UNCHANGED responseSent
  /\ UNCHANGED notApiVars

\* what sendResponse calls on res
SendOps(body, status, omitEscape) ==
  (IF TruthyArg(status) THEN << ResOp("status", status) >> ELSE <<>>)
    \o << ResOp("send", IF omitEscape THEN body ELSE EntityEncodeAll(body)) >>

\* apiUtils.sendResponse(res, env, body, status, omitEscape)
SendResponse ==
  /\ Len(apiLog) < MaxApiCalls
  /\ \E body \in Bodies, status \in StatusArgs, omitEscape \in BOOLEAN :
       IF responseSent
       THEN Respond("sendResponse", <<>>) /\ UNCHANGED responseSent
       ELSE Respond("sendResponse", SendOps(body, status, omitEscape))
            /\ responseSent' = MarkSent
  /\ UNCHANGED notApiVars

\* apiUtils.renderResponse(res, env, view, locals)
RenderResponse ==
  /\ Len(apiLog) < MaxApiCalls
  /\ IF responseSent
     THEN Respond("renderResponse", <<>>) /\ UNCHANGED responseSent
     ELSE Respond("renderResponse", << ResOp("render", "view") >>)
          /\ responseSent' = MarkSent
  /\ UNCHANGED notApiVars

\* apiUtils.jsonResponse(res, env, json)
JsonResponse ==
  /\ Len(apiLog) < MaxApiCalls
  /\ IF responseSent
     THEN Respond("jsonResponse", <<>>) /\ UNCHANGED responseSent
     ELSE Respond("jsonResponse", << ResOp("json", "json") >>)
          /\ responseSent' = MarkSent
  /\ UNCHANGED notApiVars

\* a request whose env and res are new
RespondInit ==
  /\ ApiIdle
  /\ CpuIdle
  /\ EndIdle
  /\ UtilIdle
  /\ TestIdle

RespondNext ==
  \/ RelativeRedirect
  \/ SetHeader
  \/ SendResponse
  \/ RenderResponse
  \/ JsonResponse

SpecRespond == RespondInit /\ [][RespondNext]_vars

\* the helpers that send a body, and the calls on res that do
BodyHelpers == {"sendResponse", "renderResponse", "jsonResponse"}
BodyOps == {"send", "render", "json"}

\* the helper calls that are calls of the three body helpers
BodyCalls == { i \in 1..Len(apiLog) : apiLog[i].fn \in BodyHelpers }

\* the body calls made on res between two positions
BodiesIn(from, to) == { k \in (from + 1)..to : resOps[k].op \in BodyOps }

\* C22: of the calls of sendResponse, renderResponse and jsonResponse made for
\* one env only the first writes a body and sets env.responseSent; every later
\* call of the three and every setHeader call after the first does nothing to
\* res.
C22_RespondOnce ==
  /\ responseSent <=> BodyCalls # {}
  /\ \A i \in BodyCalls :
       IF \A j \in BodyCalls : i <= j
       THEN /\ ~apiLog[i].sent
            /\ Cardinality(BodiesIn(apiLog[i].from, apiLog[i].to)) = 1
       ELSE /\ apiLog[i].sent
            /\ apiLog[i].to = apiLog[i].from
  /\ \A i \in 1..Len(apiLog) :
       (apiLog[i].fn = "setHeader" /\ \E j \in BodyCalls : j < i)
         => apiLog[i].to = apiLog[i].from
  /\ Cardinality(BodiesIn(0, Len(resOps))) <= 1

\* a header is set, a body is sent with a status, and then a second body and a
\* second header are asked for
C22_Witness ==
  /\ Len(apiLog) = MaxApiCalls
  /\ apiLog[1].fn = "sendResponse"
  /\ apiLog[2].fn = "jsonResponse"
  /\ apiLog[3].fn = "setHeader"
  /\ resOps = << ResOp("status", "404"), ResOp("send", "&#x3C;") >>
  /\ responseSent

\* ---------------------------------------------------------------------------
\* The response helpers of lib/api/apiUtils.js, which read res.headersSent
\* ---------------------------------------------------------------------------

\* Util.escapeHtml: the characters that are markup become named entities
EscapeHtml(body) ==
  CASE body = "<" -> "&lt;"
    [] OTHER -> body

\* res.locals.errorEnc
ErrorEncodings == {"html", "plain", "json"}

\* the content types the callers pass
HtmlTypes == {Undefined, "text/html; profile"}

\* if (res.headersSent) { return; }
NeverSent(sent) == FALSE
AlreadySent(sent) == sent

\* res.status(status) when status is a number
StatusOps(status) ==
  IF IsNumber(status) THEN << ResOp("status", status) >> ELSE <<>>

\* apiUtils.setHeader(res, field, value)
SetOps(sent, field, value) ==
  IF AlreadySent(sent) THEN <<>> ELSE << ResOp("set", value) >>

\* apiUtils.relativeRedirect(res, path, httpStatus)
RedirectOps(sent, httpStatus) ==
  IF AlreadySent(sent)
  THEN <<>>
  ELSE << ResOp("redirect", IF IsNumber(httpStatus) THEN httpStatus ELSE "path") >>

\* apiUtils.htmlResponse(res, body, status, contentType, omitEscape)
HtmlOps(sent, body, status, contentType, omitEscape) ==
  IF AlreadySent(sent)
  THEN <<>>
  ELSE StatusOps(status)
         \o SetOps(sent, "content-type",
                   IF contentType = Undefined THEN "text/html; charset=utf-8"
                   ELSE contentType)
         \o << ResOp("send", IF omitEscape THEN body ELSE EscapeHtml(body)) >>

\* apiUtils.plainResponse(res, text, status, contentType)
PlainOps(sent, text, status) ==
  IF AlreadySent(sent)
  THEN <<>>
  ELSE StatusOps(status)
         \o SetOps(sent, "content-type", "text/plain; charset=utf-8")
         \o << ResOp("send", text) >>

\* apiUtils.jsonResponse(res, json, status, contentType)
JsonOps(sent, json, status) ==
  IF AlreadySent(sent)
  THEN <<>>
  ELSE StatusOps(status)
         \o SetOps(sent, "content-type", "application/json; charset=utf-8")
         \o << ResOp("json", json) >>

\* apiUtils.renderResponse(res, view, locals)
RenderOps(sent, view) ==
  IF AlreadySent(sent) THEN <<>> ELSE << ResOp("render", view) >>

\* apiUtils.errorResponse(res, text, status) for res.locals.errorEnc = enc
ErrorOps(sent, enc, text, status) ==
  CASE enc = "html" ->
         HtmlOps(sent, text, IF IsNumber(status) THEN status ELSE "500",
                 Undefined, FALSE)
    [] enc = "plain" ->
         PlainOps(sent, text, IF IsNumber(status) THEN status ELSE "500")
    [] enc = "json" ->
         JsonOps(sent, "{error:" \o text \o "}",
                 IF IsNumber(status) THEN status ELSE "500")

LibRelativeRedirect ==
  /\ Len(apiLog) < MaxApiCalls
  /\ \E httpStatus \in RedirectArgs :
       Respond("relativeRedirect", RedirectOps(headersSent, httpStatus))
  /\ UNCHANGED responseSent
  /\ UNCHANGED notApiVars

LibSetHeader ==
  /\ Len(apiLog) < MaxApiCalls
  /\ Respond("setHeader", SetOps(headersSent, "field", "value"))
  /\ UNCHANGED responseSent
  /\ UNCHANGED notApiVars

HtmlResponse ==
  /\ Len(apiLog) < MaxApiCalls
  /\ \E body \in Bodies, status \in StatusArgs, contentType \in HtmlTypes,
        omitEscape \in BOOLEAN :
       Respond("htmlResponse",
               HtmlOps(headersSent, body, status, contentType, omitEscape))
  /\ UNCHANGED responseSent
  /\ UNCHANGED notApiVars

PlainResponse ==
  /\ Len(apiLog) < MaxApiCalls
  /\ \E text \in Bodies, status \in StatusArgs :
       Respond("plainResponse", PlainOps(headersSent, text, status))
  /\ UNCHANGED responseSent
  /\ UNCHANGED notApiVars

LibJsonResponse ==
  /\ Len(apiLog) < MaxApiCalls
  /\ \E status \in StatusArgs :
       Respond("jsonResponse", JsonOps(headersSent, "json", status))
  /\ UNCHANGED responseSent
  /\ UNCHANGED notApiVars

LibRenderResponse ==
  /\ Len(apiLog) < MaxApiCalls
  /\ Respond("renderResponse", RenderOps(headersSent, "view"))
  /\ UNCHANGED responseSent
  /\ UNCHANGED notApiVars

ErrorResponse ==
  /\ Len(apiLog) < MaxApiCalls
  /\ \E enc \in ErrorEncodings, text \in Bodies, status \in StatusArgs :
       Respond("errorResponse", ErrorOps(headersSent, enc, text, status))
  /\ UNCHANGED responseSent
  /\ UNCHANGED notApiVars

\* a request whose response head may have been sent by the route already
HeadersInit ==
  /\ responseSent = FALSE
  /\ headersSent \in BOOLEAN
  /\ resOps = <<>>
  /\ apiLog = <<>>
  /\ CpuIdle
  /\ EndIdle
  /\ UtilIdle
  /\ TestIdle

HeadersNext ==
  \/ LibRelativeRedirect
  \/ LibSetHeader
  \/ HtmlResponse
  \/ PlainResponse
  \/ LibJsonResponse
  \/ LibRenderResponse
  \/ ErrorResponse

SpecHeaders == HeadersInit /\ [][HeadersNext]_vars

\* C23: a call of relativeRedirect, setHeader, htmlResponse, plainResponse,
\* jsonResponse, renderResponse or errorResponse made when res.headersSent is
\* true makes no call on res: no status, no header, no body, no redirect.
C23_NothingAfterHeaders ==
  \A i \in 1..Len(apiLog) :
    apiLog[i].headers => apiLog[i].to = apiLog[i].from

\* a page is sent with a status and a header, and then an error response and a
\* redirect are asked for
C23_Witness ==
  /\ Len(apiLog) = MaxApiCalls
  /\ apiLog[1].fn = "htmlResponse"
  /\ apiLog[2].fn = "errorResponse"
  /\ apiLog[3].fn = "relativeRedirect"
  /\ ~apiLog[1].headers
  /\ apiLog[2].headers
  /\ Len(resOps) = 3
  /\ resOps[3] = ResOp("send", "&lt;")

\* ---------------------------------------------------------------------------
\* cpuTimeout: the messages a worker sends to the cluster master
\* ---------------------------------------------------------------------------

\* how many requests one process serves at a time
MaxRequests == 2

Requests == 1..MaxRequests

\* res.locals.env.conf.parsoid.timeouts.cpu
CPU_TIMEOUT == "timeouts.cpu"

\* the message that says a request has started (it has no done property)
StartMessage(timeoutId) ==
  [type |-> "timeout", done |-> FALSE, timeout |-> CPU_TIMEOUT, timeoutId |-> timeoutId]

\* makeDone(timeoutId): the message its function sends
DoneMessage(timeoutId) ==
  [type |-> "timeout", done |-> TRUE, timeoutId |-> timeoutId]

\* cluster.isMaster || !sufficientNodeVersion
Unwatched(env) == env \in {"master", "oldNode"}

\* p.then(resolve, reject): the state the returned promise takes from p
AlwaysResolved(state) == "fulfilled"
Adopted(state) == state

\* the ids the requests of one process have are all different: they are
\* numbered from the first one on
CpuInit ==
  /\ cenv \in {"worker", "master", "oldNode"}
  /\ \E first \in {1, 2} : cid = [r \in Requests |-> first + r - 1]
  /\ cwrapped = [r \in Requests |-> "pending"]
  /\ creactions = [r \in Requests |-> <<>>]
  /\ csent = <<>>
  /\ creturned = [r \in Requests |-> "pending"]
  /\ cstep = [r \in Requests |-> "ready"]
  /\ ApiIdle
  /\ EndIdle
  /\ UtilIdle
  /\ TestIdle

\* apiUtils.cpuTimeout(p, res): the executor of the returned promise
CpuTimeout ==
  /\ \E r \in Requests :
       /\ cstep[r] = "ready"
       /\ cstep' = [cstep EXCEPT ![r] = "called"]
       /\ IF Unwatched(cenv)
          THEN /\ creactions' = [creactions EXCEPT ![r] = <<"settle">>]
               /\ UNCHANGED csent
          ELSE /\ csent' = Append(csent, StartMessage(cid[r]))
               /\ creactions' = [creactions EXCEPT ![r] = <<"done", "settle">>]
  /\ UNCHANGED <<cenv, cid, cwrapped, creturned>>
  /\ UNCHANGED notCpuVars

\* the wrapped promise is fulfilled or rejected, before or after the call
WrappedSettles ==
  /\ \E r \in Requests, outcome \in {"fulfilled", "rejected"} :
       /\ cwrapped[r] = "pending"
       /\ cwrapped' = [cwrapped EXCEPT ![r] = outcome]
  /\ UNCHANGED <<cenv, cid, creactions, csent, creturned, cstep>>
  /\ UNCHANGED notCpuVars

\* the function of makeDone runs: the first reaction of a settled p
RunDone ==
  /\ \E r \in Requests :
       /\ cwrapped[r] # "pending"
       /\ creactions[r] # <<>>
       /\ Head(creactions[r]) = "done"
       /\ csent' = Append(csent, DoneMessage(cid[r]))
       /\ creactions' = [creactions EXCEPT ![r] = Tail(creactions[r])]
  /\ UNCHANGED <<cenv, cid, cwrapped, creturned, cstep>>
  /\ UNCHANGED notCpuVars

\* resolve or reject runs: the reaction of p.then(resolve, reject)
RunSettle ==
  /\ \E r \in Requests :
       /\ cwrapped[r] # "pending"
       /\ creactions[r] # <<>>
       /\ Head(creactions[r]) = "settle"
       /\ creturned' = [creturned EXCEPT ![r] = Adopted(cwrapped[r])]
       /\ creactions' = [creactions EXCEPT ![r] = Tail(creactions[r])]
  /\ UNCHANGED <<cenv, cid, cwrapped, csent, cstep>>
  /\ UNCHANGED notCpuVars

CpuNext ==
  \/ CpuTimeout
  \/ WrappedSettles
  \/ RunDone
  \/ RunSettle

SpecCpu == CpuInit /\ [][CpuNext]_vars

\* the reactions of a settled promise are run by the event loop
SpecCpuLive == SpecCpu /\ WF_vars(RunDone) /\ WF_vars(RunSettle)

\* the positions of the start and of the done messages of a request
StartsOf(r) ==
  { i \in 1..Len(csent) : ~csent[i].done /\ csent[i].timeoutId = cid[r] }
DonesOf(r) ==
  { i \in 1..Len(csent) : csent[i].done /\ csent[i].timeoutId = cid[r] }

\* the messages of a request that is watched: one start message once
\* cpuTimeout is called, carrying the timeout; no done message before the
\* start message or before p settles, never two; the done message is sent
\* when the reaction has run
Watched(r) ==
  /\ Cardinality(StartsOf(r)) = (IF cstep[r] = "called" THEN 1 ELSE 0)
  /\ \A i \in StartsOf(r) : csent[i].timeout = CPU_TIMEOUT
  /\ Cardinality(DonesOf(r)) <= 1
  /\ \A i \in DonesOf(r) : cwrapped[r] # "pending" /\ \A j \in StartsOf(r) : j < i
  /\ (cstep[r] = "called" /\ cwrapped[r] # "pending" /\ creturned[r] # "pending")
       => Cardinality(DonesOf(r)) = 1

\* the returned promise only ever takes the outcome of p
Forwarded(r) == creturned[r] # "pending" => creturned[r] = cwrapped[r]

\* a request whose promise has settled gets its done message and its outcome
Settled(r) == cstep[r] = "called" /\ cwrapped[r] # "pending"
Completed(r) ==
  /\ creturned[r] = cwrapped[r]
  /\ ~Unwatched(cenv) => Cardinality(DonesOf(r)) = 1
CompletedAsWorker(r) ==
  /\ creturned[r] = cwrapped[r]
  /\ cenv # "master" => Cardinality(DonesOf(r)) = 1

\* C24 as stated: in every worker process cpuTimeout sends one start message
\* before any done message and one done message with the same timeoutId once
\* the wrapped promise has settled; in the master it sends none; the returned
\* promise settles with the outcome of the wrapped promise.
C24_WorkerProtocol ==
  /\ [](\A r \in Requests :
          /\ cenv # "master" => Watched(r)
          /\ cenv = "master" => csent = <<>>
          /\ Forwarded(r))
  /\ \A r \in Requests : Settled(r) ~> CompletedAsWorker(r)

\* C24: the same for a worker process whose node version is 0.10.0 or later;
\* the master, and a worker on an earlier version, send no message; the
\* returned promise settles with the outcome of the wrapped promise.
C24_Protocol ==
  /\ [](\A r \in Requests :
          /\ ~Unwatched(cenv) => Watched(r)
          /\ Unwatched(cenv) => csent = <<>>
          /\ Forwarded(r))
  /\ \A r \in Requests : Settled(r) ~> Completed(r)

\* a worker has served two requests whose messages interleave: the first is
\* rejected and the second fulfilled
C24_Witness ==
  /\ cenv = "worker"
  /\ Len(csent) = 4
  /\ csent[1] = StartMessage(cid[1])
  /\ csent[2] = StartMessage(cid[2])
  /\ csent[3] = DoneMessage(cid[2])
  /\ csent[4] = DoneMessage(cid[1])
  /\ creturned[1] = "rejected"
  /\ creturned[2] = "fulfilled"

\* ---------------------------------------------------------------------------
\* startHtml2wt and endHtml2wt: the serialization of a request
\* ---------------------------------------------------------------------------

\* res.locals.oldid, env.conf.parsoid.useSelser, and the sizes and times
OldIds == {Undefined, "null", "''", "'0'", "'12'", "0", "12"}
SelserSettings == {Undefined, "false", "true"}
Sizes == {0, 1}

\* a && b
And(a, b) == IF TruthyArg(a) THEN b ELSE a

\* a !== b
NotSame(a, b) == IF a # b THEN "true" ELSE "false"

\* var hasOldId = (env.page.id && env.page.id !== '0')
AnyId(id) == And(id, "true")
HasOldId(id) == And(id, NotSame(id, "'0'"))

\* var useSelser = hasOldId && env.conf.parsoid.useSelser
UseSelser(id, conf) == And(HasOldId(id), conf)

\* DU.serializeDOM(env, body, useSelser) serializes selectively for a truthy
\* useSelser
Selective(mode) == TruthyArg(mode)

\* stats.timing(name, '', value)
Timing(name, value) == [name |-> name, value |-> value]

EndInit ==
  /\ eoldid \in OldIds
  /\ econf \in SelserSettings
  /\ estats \in BOOLEAN
  /\ epageId = Undefined
  /\ emode = Undefined
  /\ etimings = <<>>
  /\ epc = "ready"
  /\ ApiIdle
  /\ CpuIdle
  /\ UtilIdle
  /\ TestIdle

\* apiUtils.startHtml2wt(req, res, html)
StartHtml2wt ==
  /\ epc = "ready"
  /\ epageId' = eoldid
  /\ \E size \in Sizes, elapsed \in Sizes :
       etimings' = IF estats
                   THEN << Timing("html2wt.init.domparse", elapsed),
                           Timing("html2wt.size.input", size),
                           Timing("html2wt.init", elapsed) >>
                   ELSE <<>>
  /\ epc' = "started"
  /\ UNCHANGED <<eoldid, econf, estats, emode>>
  /\ UNCHANGED notEndVars

\* apiUtils.endHtml2wt(ret) up to the call of DU.serializeDOM
EndHtml2wt ==
  /\ epc = "started"
  /\ emode' = UseSelser(epageId, econf)
  /\ epc' = "serializing"
  /\ UNCHANGED <<eoldid, econf, estats, epageId, etimings>>
  /\ UNCHANGED notEndVars

\* the serializer answers: the function given to then
Serialized ==
  /\ epc = "serializing"
  /\ \E size \in Sizes, elapsed \in Sizes :
       etimings' = IF estats
                   THEN etimings \o << Timing("html2wt.total", elapsed),
                                       Timing("html2wt.size.output", size) >>
                   ELSE etimings
  /\ epc' = "done"
  /\ UNCHANGED <<eoldid, econf, estats, epageId, emode>>
  /\ UNCHANGED notEndVars

\* the serializer fails: the promise of endHtml2wt is rejected
SerializeFails ==
  /\ epc = "serializing"
  /\ epc' = "failed"
  /\ UNCHANGED <<eoldid, econf, estats, epageId, emode, etimings>>
  /\ UNCHANGED notEndVars

EndNext ==
  \/ StartHtml2wt
  \/ EndHtml2wt
  \/ Serialized
  \/ SerializeFails

SpecHtml2wt == EndInit /\ [][EndNext]_vars

\* the serializer has been called
SerializerCalled == epc \in {"serializing", "done", "failed"}

\* C25: endHtml2wt serializes selectively only if env.page.id is set (not
\* undefined, null, 0 or empty) and is not '0' and the configuration enables
\* useSelser; in every other case it serializes in plain mode.
C25_NoOldIdNoSelser ==
  SerializerCalled =>
    (Selective(emode) <=>
       /\ epageId \notin {Undefined, "null", "0", "''"}
       /\ epageId # "'0'"
       /\ econf = "true")

\* a request with an oldid and selser enabled has been serialized selectively
C25_Witness ==
  /\ epc = "done"
  /\ epageId = "'12'"
  /\ econf = "true"
  /\ Selective(emode)
  /\ estats
  /\ Len(etimings) = 5

\* a request whose oldid is '0' has been serialized in plain mode though
\* selser is enabled
C25_ZeroWitness ==
  /\ epc = "done"
  /\ epageId = "'0'"
  /\ econf = "true"
  /\ ~Selective(emode)

(***************************************************************************)
(* Properties of walkDOM while it waits for the end of the match, and of   *)
(* its child scan.                                                         *)
(***************************************************************************)
\* the known span [s, e) of the node and the target have an offset in common
Overlaps(d, n, tr) ==
  /\ HasKnownSpan(d, n)
  /\ tr.end > d.dsr[n][1]
  /\ tr.start < d.dsr[n][2]

\* C26: an element visited while waitingForEndMatch is true whose known span
\* overlaps the target is returned as the single node of the result and none
\* of its children is visited; waitingForEndMatch is false afterwards exactly
\* when the element's end is at or after target.end.
C26_IncludedWhileWaiting ==
  MatchDone =>
    \A e \in LogEntries :
      (e.pre.wf /\ Overlaps(doc, e.node, targetRange))
        => /\ ~e.res.null
           /\ e.res.nodes = <<e.node>>
           /\ e.inner = {}
           /\ e.post.wf <=> ~(doc.dsr[e.node][2] >= targetRange.end)

\* an element with children is visited while waiting and ends before the
\* target does: the matcher goes on waiting
C26_Witness ==
  /\ MatchDone
  /\ \E e \in LogEntries :
       /\ e.pre.wf /\ Overlaps(doc, e.node, targetRange)
       /\ doc.kids[e.node] # <<>>
       /\ doc.dsr[e.node][2] < targetRange.end
       /\ e.post.wf

\* an element visited while waiting ends where the target ends: the wait is over
C26_EndWitness ==
  /\ MatchDone
  /\ \E e \in LogEntries :
       /\ e.pre.wf /\ Overlaps(doc, e.node, targetRange)
       /\ doc.dsr[e.node][2] = targetRange.end
       /\ ~e.post.wf

\* the known span of the node starts where the target starts and ends before
\* the target does
StartsTarget(d, n, tr) ==
  /\ HasKnownSpan(d, n)
  /\ d.dsr[n][1] = tr.start
  /\ d.dsr[n][2] < tr.end

\* C27 as stated: a node visited while the matcher is not waiting whose span
\* starts at target.start and ends before target.end sets waitingForEndMatch
\* and is returned as {done: false, nodes: [node]}; none of its children is
\* visited.
C27_StartAnySpan ==
  MatchDone =>
    \A e \in LogEntries :
      (~e.pre.wf /\ StartsTarget(doc, e.node, targetRange))
        => /\ e.post.wf
           /\ e.res = Res(FALSE, <<e.node>>)
           /\ e.inner = {}

\* C27 (amended): the same for a node whose span is not empty.
C27_Start ==
  MatchDone =>
    \A e \in LogEntries :
      (/\ ~e.pre.wf
       /\ StartsTarget(doc, e.node, targetRange)
       /\ doc.dsr[e.node][1] < doc.dsr[e.node][2])
        => /\ e.post.wf
           /\ e.res = Res(FALSE, <<e.node>>)
           /\ e.inner = {}

\* an element with children, below the root, supplies the start of the target
C27_Witness ==
  /\ MatchDone
  /\ \E e \in LogEntries :
       /\ ~e.pre.wf
       /\ StartsTarget(doc, e.node, targetRange)
       /\ doc.dsr[e.node][1] < doc.dsr[e.node][2]
       /\ e.node # 1
       /\ doc.kids[e.node] # <<>>
       /\ e.how = "start"
       /\ e.post.wf

\* C28: the running sequence is only extended: a node that an earlier
\* iteration of a child scan has put into elements is part of what that
\* walkDOM call returns (in the returned sequence, or in the element returned
\* whole) after a later element child has returned a match that is not empty.
C28_OnlyExtended ==
  MatchDone =>
    \A e \in LogEntries :
      \A k \in 1..Len(e.scan) :
        e.scan[k].matched =>
          \A x \in SeqToSet(e.scan[k].before) :
            x \in SeqToSet(e.res.nodes) \/ e.res.nodes = <<e.node>>

\* the iterations of all child scans that came to the test of line 277
Iterations == UNION { SeqToSet(e.scan) : e \in LogEntries }
Tested == { it \in Iterations : it.stop # "return" }

C29_BreakWitness ==
  /\ MatchDone
  /\ \E it \in Tested : it.stop = "break" /\ it.entry /\ ~it.wf

\* every child of the element is in the running sequence
Absorbed(d, element, elements) ==
  \A c \in SeqToSet(d.kids[element]) : c \in SeqToSet(elements)

\* C30: a walkDOM call that ends after its child scan with a result returns
\* [this element] only if every child of the element is in the running
\* sequence; otherwise it returns the running sequence, and every member of
\* that is a node of the element's subtree.
C30_CollapseWhenAbsorbed ==
  MatchDone =>
    \A e \in LogEntries :
      (e.how = "scan" /\ ~e.res.null) =>
        IF Absorbed(doc, e.node, e.elements)
        THEN e.res.nodes = <<e.node>>
        ELSE /\ e.res.nodes = e.elements
             /\ \A x \in SeqToSet(e.elements) : IsProperDescendant(doc, x, e.node)

(***************************************************************************)
(* Properties of the nodes without span metadata.                          *)
(***************************************************************************)
\* the accounted lengths of the nodes of q from position i on
RECURSIVE SumLen(_, _, _)
SumLen(d, q, i) == IF i > Len(q) THEN 0 ELSE NodeLen(d, q[i]) + SumLen(d, q, i + 1)

\* the iterations in which lines 206-226 ran
Reconciled == { it \in Iterations : it.recon }

\* the prefix of the iteration is the last nodes of its buffer, from the one
\* after position k on
SuffixFrom(it, k) == it.prefix = SubSeq(it.preceding, k + 1, Len(it.preceding))

\* what lines 213-224 put before the child's match: the last nodes of the
\* buffer, in document order, no longer together than the gap, and ending
\* (going backwards) at the first node that is longer than what is left of
\* the gap
Reconciles(it) ==
  /\ \E k \in 0..Len(it.preceding) :
       /\ SuffixFrom(it, k)
       /\ k > 0 => NodeLen(doc, it.preceding[k]) > it.gap - SumLen(doc, it.prefix, 1)
  /\ \A i, j \in 1..Len(it.prefix) : i < j => it.prefix[i] < it.prefix[j]
  /\ it.prefix # <<>> => SumLen(doc, it.prefix, 1) <= it.gap

\* C31: the nodes put before a child's match are a contiguous suffix of the
\* buffered preceding text and comment siblings, in document order, of a
\* total length of at most the gap between the discovered offset and
\* target.start, the walk back ending at the first node longer than what is
\* left of the gap; this happens at most once per call of findMatchingNodes.
C31_Reconciliation ==
  MatchDone =>
    /\ \A it \in Reconciled : Reconciles(it)
    /\ Cardinality(Reconciled) <= 1

\* the iterations whose child is a text or a comment node
TextIterations == { it \in Iterations : ~IsElt(doc, it.child) }

\* what an iteration did with its child
Added(it) == it.after = Append(it.before, it.child)
Buffered(it) == it.buffered = Append(it.preceding, it.child)
Discarded(it) == it.after = it.before /\ it.buffered = it.preceding

\* an offset has been established: currentOffset is not null
Established(co) == co # Null

\* C32: a text or comment child is added to the running sequence iff the
\* matcher was waiting on entry to its iteration or is waiting after it; it is
\* buffered iff it was not added and no current offset is established;
\* otherwise it is discarded.  currentOffset never decreases; it advances by
\* the accounted length of the node, only while it is below target.end, and
\* waitingForEndMatch is false once it has reached target.end.
C32_TextChild ==
  MatchDone =>
    \A it \in TextIterations :
      /\ Added(it) <=> (it.entry \/ it.wf)
      /\ Buffered(it) <=> (~Added(it) /\ ~Established(it.co))
      /\ Added(it) \/ Buffered(it) \/ Discarded(it)
      /\ it.co >= it.co0
      /\ it.co # it.co0 =>
           /\ Established(it.co0)
           /\ it.co0 < targetRange.end
           /\ it.co = it.co0 + NodeLen(doc, it.child)
           /\ it.co >= targetRange.end => ~it.wf

\* the root's span metadata has an unknown (null) start or end
UnknownBounds(d) == d.dsr[1] # <<>> /\ (d.dsr[1][1] = Null \/ d.dsr[1][2] = Null)

\* C33: for a node whose span metadata has an unknown start or end the
\* matcher works with 0 for the start and sourceLen for the end, so a root
\* with unknown bounds is never pruned (line 173) for a target with
\* 0 <= start <= end <= sourceLen.
C33_UnknownBoundsContain ==
  MatchDone /\ UnknownBounds(doc) =>
    /\ doc.dsr[1][1] = Null => StartFrom(doc.dsr[1]) = 0
    /\ doc.dsr[1][2] = Null => EndFrom(doc.dsr[1], doc.srcLen) = doc.srcLen
    /\ \A e \in LogEntries : e.node = 1 => e.how # "disjoint"

(***************************************************************************)
(* errorHandler and errorWrapper of lib/api/apiUtils.js.                   *)
(***************************************************************************)
\* how many calls of the two are made with one env
MaxErrCalls == 3

\* err.type of the errors that reach the handler; a plain Error has none
ErrTypes == {"MaxConcurrentCallsError", "TimeoutError", "OtherError", Undefined}

\* an error as it is thrown
Errors == [ type : ErrTypes, httpStatus : {Undefined, "500"},
            suppressLoggingStack : {Undefined} ]

\* lines 152-158: what errorHandler sets on err before it logs it
AsThrown(err) == err
WithStatus(err) ==
  IF err.type = "MaxConcurrentCallsError"
  THEN [err EXCEPT !.suppressLoggingStack = "true", !.httpStatus = "503"]
  ELSE IF err.type = "TimeoutError"
  THEN [err EXCEPT !.suppressLoggingStack = "true", !.httpStatus = "504"]
  ELSE err

\* line 159: env.log('fatal/request', err)
LogFatal(err) == Append(hlog, [level |-> "fatal/request", err |-> WithStatus(err)])

\* one call as hcalls records it; err is <<>> when the call has no error
ErrCall(fn, state, err, value, settled, out, before, after) ==
  [ fn |-> fn, state |-> state, err |-> err, value |-> value, settled |-> settled,
    out |-> out, before |-> before, after |-> after ]

\* lines 151-160
ErrorHandler ==
  /\ Len(hcalls) < MaxErrCalls
  /\ \E err \in Errors :
       /\ hlog' = LogFatal(err)
       /\ hcalls' = Append(hcalls, ErrCall("errorHandler", "direct", <<err>>, Undefined,
                                           "returned", Undefined, Len(hlog), Len(hlog')))
  /\ UNCHANGED hpending
  /\ UNCHANGED notErrVars

\* what callers pass as promiseOrValue: a plain value, a promise that fulfils
\* with a value, a promise that rejects with an error
Promised ==
  { [state |-> st, err |-> <<>>, value |-> "html"] : st \in {"value", "fulfilled"} }
  \cup { [state |-> "rejected", err |-> <<e>>, value |-> Undefined] : e \in Errors }

\* lines 168-169: Promise.resolve(promiseOrValue).catch(...) is returned unsettled
ErrorWrapper ==
  /\ Len(hcalls) < MaxErrCalls
  /\ hpending = 0
  /\ \E p \in Promised :
       hcalls' = Append(hcalls, ErrCall("errorWrapper", p.state, p.err, p.value,
                                        "pending", Undefined, Len(hlog), Len(hlog)))
  /\ hpending' = Len(hcalls')
  /\ UNCHANGED hlog
  /\ UNCHANGED notErrVars

\* lines 169-171: the promise of errorWrapper settles; the catch callback runs
\* for a rejection and returns nothing
WrapperSettles ==
  /\ hpending # 0
  /\ hlog' = IF hcalls[hpending].state = "rejected"
             THEN LogFatal(hcalls[hpending].err[1])
             ELSE hlog
  /\ hcalls' = [hcalls EXCEPT ![hpending] =
                  [@ EXCEPT !.settled = "fulfilled",
                            !.out = IF hcalls[hpending].state = "rejected"
                                    THEN Undefined ELSE hcalls[hpending].value,
                            !.before = Len(hlog),
                            !.after = Len(hlog')]]
  /\ hpending' = 0
  /\ UNCHANGED notErrVars

ErrInit ==
  /\ ErrIdle
  /\ SubstIdle
  /\ ApiIdle
  /\ CpuIdle
  /\ EndIdle
  /\ TestIdle

ErrNext ==
  \/ ErrorHandler
  \/ ErrorWrapper
  \/ WrapperSettles

SpecErrors == ErrInit /\ [][ErrNext]_vars

\* the calls that have run errorHandler: the direct ones and the settled
\* wrappers of a rejected promise
HandlerRuns ==
  { i \in 1..Len(hcalls) :
      \/ hcalls[i].fn = "errorHandler"
      \/ hcalls[i].fn = "errorWrapper" /\ hcalls[i].state = "rejected"
                                       /\ hcalls[i].settled # "pending" }

\* the error of call c was logged once, at 'fatal/request', by that call, with
\* the status the claim names
LoggedOnce(c) ==
  /\ c.after = c.before + 1
  /\ hlog[c.after].level = "fatal/request"
  /\ LET given  == c.err[1]
         logged == hlog[c.after].err
     IN  CASE given.type = "MaxConcurrentCallsError" ->
                logged = [given EXCEPT !.httpStatus = "503", !.suppressLoggingStack = "true"]
           [] given.type = "TimeoutError" ->
                logged = [given EXCEPT !.httpStatus = "504", !.suppressLoggingStack = "true"]
           [] OTHER -> logged = given

\* C34: errorHandler logs every error exactly once at 'fatal/request', with
\* httpStatus 503 and no stack for a MaxConcurrentCallsError, 504 and no stack
\* for a TimeoutError and every other error as it came; the promise of
\* errorWrapper is fulfilled, after one errorHandler call when the wrapped
\* promise was rejected, and with the wrapped value and no errorHandler call
\* when it was not.
C34_ErrorsLoggedOnce ==
  /\ Len(hlog) = Cardinality(HandlerRuns)
  /\ \A i \in HandlerRuns : LoggedOnce(hcalls[i])
  /\ \A i \in 1..Len(hcalls) :
       hcalls[i].fn = "errorWrapper" /\ hcalls[i].settled # "pending" =>
         /\ hcalls[i].settled = "fulfilled"
         /\ hcalls[i].state # "rejected" =>
              hcalls[i].after = hcalls[i].before /\ hcalls[i].out = hcalls[i].value

\* a rejected TimeoutError went through errorWrapper and a
\* MaxConcurrentCallsError through errorHandler
C34_Witness ==
  /\ \E i \in HandlerRuns : /\ hcalls[i].fn = "errorWrapper"
                            /\ hcalls[i].err[1].type = "TimeoutError"
                            /\ hcalls[i].err[1].httpStatus = "500"
  /\ \E i \in HandlerRuns : /\ hcalls[i].fn = "errorHandler"
                            /\ hcalls[i].err[1].type = "MaxConcurrentCallsError"
  /\ \E i \in 1..Len(hcalls) : hcalls[i].state = "fulfilled" /\ hcalls[i].settled = "fulfilled"

(***************************************************************************)
(* substTopLevelTemplates of lib/api/apiUtils.js (and of its older copy).  *)
(***************************************************************************)
\* how many top-level pieces the wikitext has
MaxSubst == 3

\* the pieces of a wikitext as the tokenizer sees them at top level: runs of
\* text and templates, with and without an argument
Pieces ==
  [ text      |-> <<"a">>,
    newline   |-> <<"n">>,
    template  |-> <<"{", "{", "t", "}", "}">>,
    templateArg |-> <<"{", "{", "t", "|", "a", "}", "}">> ]
PieceNames == DOMAIN Pieces

\* the token name of a piece: the loop looks for 'template'
TokenName(p) == IF p \in {"template", "templateArg"} THEN "template" ELSE p

RECURSIVE Joined(_, _)
Joined(ps, i) == IF i > Len(ps) THEN <<>> ELSE Pieces[ps[i]] \o Joined(ps, i + 1)

\* line 187: the tokens of the pieces from i on, the first starting at offset at;
\* dataAttribs.tsr of a token is where its source starts and ends
RECURSIVE Tokenized(_, _, _)
Tokenized(ps, i, at) ==
  IF i > Len(ps) THEN <<>>
  ELSE << [name |-> TokenName(ps[i]), tsr |-> <<at, at + Len(Pieces[ps[i]])>>] >>
       \o Tokenized(ps, i + 1, at + Len(Pieces[ps[i]]))

\* String.prototype.substring(from): up to the end of the string
SubstringFrom(s, from) == Substring(s, from, Len(s))

\* line 193: '{{subst:'
SubstPrefix == <<"{", "{", "s", "u", "b", "s", "t", ":">>

\* line 195: tsrIncr += 6
SubstIncr == 6

\* lines 192-194
SplicedAfter(wt, at) == Substring(wt, 0, at) \o SubstPrefix \o SubstringFrom(wt, at)
Spliced(wt, at) == Substring(wt, 0, at) \o SubstPrefix \o SubstringFrom(wt, at + 2)

\* lines 189-197: the loop from token i on
RECURSIVE SubstLoop(_, _, _, _)
SubstLoop(tokens, i, wt, tsrIncr) ==
  IF i > Len(tokens) THEN wt
  ELSE IF tokens[i].name = "template"
  THEN SubstLoop(tokens, i + 1, Spliced(wt, tokens[i].tsr[1] + tsrIncr),
                 tsrIncr + SubstIncr)
  ELSE SubstLoop(tokens, i + 1, wt, tsrIncr)

SubstInit ==
  /\ \E k \in 0..MaxSubst : \E ps \in [1..k -> PieceNames] :
       /\ swt = Joined(ps, 1)
       /\ stokens = Tokenized(ps, 1, 0)
  /\ ssent = <<>>
  /\ spc = "ready"
  /\ ErrIdle
  /\ ApiIdle
  /\ CpuIdle
  /\ EndIdle
  /\ TestIdle

\* lines 185-200
SubstTopLevelTemplates ==
  /\ spc = "ready"
  /\ ssent' = SubstLoop(stokens, 1, swt, 0)
  /\ spc' = "done"
  /\ UNCHANGED <<swt, stokens>>
  /\ UNCHANGED notSubstVars

SubstNext == SubstTopLevelTemplates

SpecSubst == SubstInit /\ [][SubstNext]_vars

\* the places in stokens of the template tokens, and how many template tokens
\* come before place k
TemplatePlaces == { k \in 1..Len(stokens) : stokens[k].name = "template" }
TemplatesBefore(k) == Cardinality({ j \in TemplatePlaces : j < k })

\* the offsets of swt that hold the two opening braces of a template
BraceOffsets ==
  UNION { { stokens[k].tsr[1], stokens[k].tsr[1] + 1 } : k \in TemplatePlaces }

\* how many templates start before offset o of swt
StartedBefore(o) == Cardinality({ k \in TemplatePlaces : stokens[k].tsr[1] < o })

\* C35: with the template tokens in increasing source order, the i-th template
\* (from 0) has the two characters at its tsr[0] replaced by '{{subst:', which
\* stands at offset tsr[0] + 6*i of the text sent; every other character of the
\* wikitext is kept, in order; the text sent is longer than the wikitext by 6
\* times the number of template tokens.
C35_SubstSplice ==
  spc = "done" =>
    /\ Len(ssent) = Len(swt) + 6 * Cardinality(TemplatePlaces)
    /\ \A k \in TemplatePlaces :
         LET at == stokens[k].tsr[1] + 6 * TemplatesBefore(k)
         IN  SubSeq(ssent, at + 1, at + Len(SubstPrefix)) = SubstPrefix
    /\ \A o \in 0..(Len(swt) - 1) :
         o \notin BraceOffsets =>
           ssent[o + 1 + 6 * StartedBefore(o)] = swt[o + 1]

\* two templates with text between them and after them were prefixed
C35_Witness ==
  /\ spc = "done"
  /\ Cardinality(TemplatePlaces) >= 2
  /\ \E k \in 1..Len(stokens) : /\ stokens[k].name # "template"
                                /\ TemplatesBefore(k) = 1
  /\ ssent # swt

\* a span that lies in a text: 0 <= start <= end
WellFormedSpan(span) == 0 <= span.start /\ span.start <= span.end

\* C36: every span checkIfSignificant hands to findMatchingNodes and every
\* offset a result reports satisfies 0 <= start <= end, also after the start of
\* an empty old span was moved for an implicitly closed element.
C36_SpansWellFormed ==
  /\ \A k \in 1..Len(regionLog) :
       WellFormedSpan(regionLog[k].oldSpan) /\ WellFormedSpan(regionLog[k].newSpan)
  /\ \A k \in 1..Len(results) :
       WellFormedSpan(offsets[results[k].offset][1])
       /\ WellFormedSpan(offsets[results[k].offset][2])

\* checkIfSignificant has just been called by roundTripDiff (line 512) with
\* the data of this state
JustChecked ==
  /\ fpc \in {"plainDiffed", "selserDiffed"}
  /\ ftrace # <<>>
  /\ ftrace[Len(ftrace)].ev = "check"

\* C37: in every call of checkIfSignificant made during fetch, in the plain
\* and in the selser phase, data.oldHTML and data.oldDp are the parse of the
\* wikitext data.oldWt whose offsets are matched against them.
C37_OldDocOfOldWt == JustChecked => fdata.oldHTML = [of |-> fdata.oldWt]

\* the positions of the output that close a testsuite
SuiteClosings == { q \in 1..Len(xout) : xout[q] = "</testsuite>" }

\* how many testsuite elements are open after position p of the output
OpenSuitesAt(p) ==
  Cardinality({ q \in SuiteOpenings : q <= p }) - Cardinality({ q \in SuiteClosings : q <= p })

\* C38: for an error, for an empty result list and for every result list
\* with any selser flags, the output of xmlFormat opens and closes the same
\* number of testsuite elements, each closed before the next is opened, all of
\* them inside the one testsuites element.
C38_SuitesBalanced ==
  xpc = "returned" =>
    /\ Cardinality(SuiteOpenings) = Cardinality(SuiteClosings)
    /\ \A p \in 1..Len(xout) : OpenSuitesAt(p) \in {0, 1}
    /\ { q \in 1..Len(xout) : xout[q] = "<testsuites>" } = {1}
    /\ { q \in 1..Len(xout) : xout[q] = "</testsuites>" } = {Len(xout)}

\* a result list whose flag changes, with profiling data
C38_Witness ==
  /\ XmlListed
  /\ xprofile # Undefined
  /\ Cardinality(SuiteClosings) >= 2
  /\ \E i \in 1..Len(xresults) : xresults[i].type = "fail"

\* the calls on res that end the response: res.end() and the calls that send
\* a body
EndingOps == {"end"} \cup BodyOps

\* the places in resOps where the response is ended
Endings == { k \in 1..Len(resOps) : resOps[k].op \in EndingOps }

\* C39: whatever calls of relativeRedirect, sendResponse, renderResponse and
\* jsonResponse are made for one res and env, the response is written and
\* ended at most once, and no body is sent after a redirect was written.
C39_WrittenOnce ==
  /\ Cardinality(Endings) <= 1
  /\ \A j \in 1..Len(resOps), k \in 1..Len(resOps) :
       j < k /\ resOps[j].op = "writeHead" => resOps[k].op \notin BodyOps
====
